---- MODULE Spec2Model ----
(***************************************************************************)
(* A model of the Instagram Graph API proxy service:                       *)
(*   - InstagramGraphService.get_insights   (app/services/instagram.py)    *)
(*   - InstagramGraphAPI._make_request and the paged media accessors       *)
(*                                          (app/services/instagram_api.py)*)
(*   - InstagramDataAggregator              (app/services/data_aggregator) *)
(*   - SupabaseClient.upsert_data           (app/db/supabase.py)           *)
(* Each component has its own specification over the shared variables.     *)
(***************************************************************************)
EXTENDS Integers, Sequences, FiniteSets, TLC

VARIABLES
    \* ---- InstagramGraphService.get_insights ----
    gi_pc,        \* "idle" | "awaiting" | "done"
    gi_req,       \* the InsightsRequest of the call in progress
    gi_now,       \* datetime.now() as read where `since` gets its default (else 0)
    gi_later,     \* datetime.now() as read where `until` gets its default (else 0)
    gi_params,    \* the query parameters of the GET that was issued
    gi_gets,      \* number of upstream GETs issued for the current request
    gi_calls,     \* number of get_insights invocations for the current request
    gi_up,        \* how the upstream GET of the current request ended
    gi_out,       \* the outcome the caller observes
    \* ---- InstagramGraphAPI._make_request under its retry decorator ----
    rq_pc,        \* "idle" | "attempting" | "sleeping" | "done"
    rq_endpoint,  \* the endpoint of the call in progress
    rq_sent,      \* the GETs sent for the current call: [attempt, access_token]
    rq_log,       \* how each finished attempt of the current call ended
    rq_delays,    \* the waits slept between the attempts of the current call
    rq_out,       \* what the caller of _make_request observes
    \* ---- InstagramGraphAPI.get_user_media / get_hashtag_media ----
    pg_pc,        \* "idle" | "first" | "paging" | "done"
    pg_op,        \* which of the two accessors is running
    pg_limit,     \* the limit argument
    pg_up,        \* the upstream's paging layout for this call
    pg_cursor,    \* the page the GET in flight asks for
    pg_list,      \* media_list
    pg_followed,  \* the cursors requested directly with requests.get
    pg_repeat,    \* TRUE once a cursor has been requested a second time
    pg_failed,    \* TRUE once a page request did not yield a proper page
    pg_sent,      \* the GETs sent for the call: [via, page, attempt, access_token]
    pg_turn,      \* the number of follow-up GETs sent for the call, modulo 2
    pg_out,       \* what the caller observes
    \* ---- InstagramDataAggregator.aggregate_all_data and the gateway ----
    ag_pc,        \* "idle", the call in flight, "done" or "failed"
    ag_limit,     \* media_limit
    ag_hashtags,  \* hashtags (the empty list stands for None as well)
    ag_summary,   \* the summary dict of the run
    ag_media,     \* media_list of the step in progress
    ag_stored,    \* stored_media of the step in progress
    ag_i,         \* position of the loop over media
    ag_mi,        \* media_insights, the per-item list of the summary
    ag_h,         \* position of the loop over hashtags
    ag_htres,     \* hashtag_results
    ag_tmedia,    \* media_list of fetch_and_store_hashtag_media
    ag_tstored,   \* stored_media of fetch_and_store_hashtag_media
    ag_k,         \* position of the loop over a hashtag's media
    ag_rec,       \* the record handed to the gateway call in flight
    ag_uidata,    \* whether the user insights response carried a "data" list
    ag_calls,     \* every upstream and gateway call of the run, in order
    ag_result,    \* what the caller of aggregate_all_data observes
    ag_now,       \* the reading of datetime.utcnow()
    ag_run,       \* which run on this gateway is in progress (1 or 2)
    ag_tape,      \* the answers the first run got from upstream and gateway
    ag_pos,       \* the next answer of the tape a later run will get
    ag_snap,      \* the gateway's table as the first run left it
    ag_other,     \* the locals of the suspended run of an overlapping request
    ag_cur,       \* which of two overlapping requests the ag_ locals belong to
    db,           \* the rows of the gateway's table
    \* ---- the shaping of one record before it is handed to the gateway ----
    sh_pc,        \* "idle" | "done"
    sh_op,        \* the fetch_and_store operation that shapes the record
    sh_in,        \* what the upstream returned: a media item or an insights body
    sh_rec,       \* the record handed to upsert_data
    sh_out        \* "none" | "stored" | "returned" | "raised"

gi_vars == <<gi_pc, gi_req, gi_now, gi_later, gi_params, gi_gets, gi_calls, gi_up,
             gi_out>>
rq_vars == <<rq_pc, rq_endpoint, rq_sent, rq_log, rq_delays, rq_out>>
pg_vars == <<pg_pc, pg_op, pg_limit, pg_up, pg_cursor, pg_list, pg_followed,
             pg_repeat, pg_failed, pg_sent, pg_turn, pg_out>>

ag_vars == <<ag_pc, ag_limit, ag_hashtags, ag_summary, ag_media, ag_stored,
             ag_i, ag_mi, ag_h, ag_htres, ag_tmedia, ag_tstored, ag_k, ag_rec,
             ag_uidata, ag_calls, ag_result, ag_now, ag_run, ag_tape, ag_pos,
             ag_snap, ag_other, ag_cur, db>>

sh_vars == <<sh_pc, sh_op, sh_in, sh_rec, sh_out>>

vars == <<gi_vars, rq_vars, pg_vars, ag_vars, sh_vars>>

\* What each component leaves alone.
gi_frame == <<rq_vars, pg_vars, ag_vars, sh_vars>>
rq_frame == <<gi_vars, pg_vars, ag_vars, sh_vars>>
pg_frame == <<gi_vars, rq_vars, ag_vars, sh_vars>>
ag_frame == <<gi_vars, rq_vars, pg_vars, sh_vars>>
sh_frame == <<gi_vars, rq_vars, pg_vars, ag_vars>>

\* Python's None, for an Optional[str] and for an Optional[int] field.
None == "None"
NoneInt == -1

(***************************************************************************)
(* Schemas (app/schemas/instagram.py)                                      *)
(***************************************************************************)
Metric ==
    { "accounts_engaged", "comments", "follows", "likes", "profile_views",
      "reach", "replies", "saved", "shares", "total_interactions", "views",
      "website_clicks",
      "audience_demographics", "engaged_audience_demographics",
      "follower_demographics", "online_followers", "follower_count" }

Timeframe == { "last_7_days", "last_14_days", "last_30_days", "last_90_days" }

\* Largest number of metrics in one modelled request.
MaxMetrics == 2

\* The since / until values a caller supplies in the model: the epoch itself
\* and a later instant.
SuppliedStamps == { 0, 1600000000 }

SecondsPerDay == 86400
DefaultDaysBack == 365

\* datetime.now() is a naive datetime: the wall clock of the server's time
\* zone, held here as whole seconds counted from 1970-01-01T00:00 on that
\* wall clock (int() drops the fraction of a second of a timestamp).  The
\* readings used are noon of 2032-06-15 and noon of 2032-10-28; the second
\* now() of a call reads the same second as the first or the next one.
ClockReadings == { 1970913600, 1982577600 }
Elapsed == { 0, 1 }

\* The server's time zone as datetime.timestamp() applies it to a naive
\* datetime: the offsets from UTC in seconds and the stretches of wall clock
\* on which daylight-saving time is in force (here from the last Sunday of
\* March, 03:00, to the last Sunday of October, 03:00, in 2031 and in 2032).
ServerZone ==
    [ std |-> 3600, dst |-> 7200,
      dstPeriods |-> { << 1932606000, 1950750000 >>, << 1964055600, 1982804400 >> } ]

utcoffset(wall) ==
    IF \E p \in ServerZone.dstPeriods : p[1] <= wall /\ wall < p[2]
    THEN ServerZone.dst ELSE ServerZone.std

\* naive_datetime.timestamp(): the wall clock time is taken as local time.
timestamp(wall) == wall - utcoffset(wall)

ConfiguredToken == "settings_token"

\* InsightsRequest: metrics is required and non-empty; timeframe, since,
\* until and access_token are Optional and default to None.
RECURSIVE MetricSets(_)
MetricSets(k) ==
    IF k = 0 THEN { {} }
    ELSE LET smaller == MetricSets(k - 1)
         IN  smaller \cup { s \cup {m} : s \in smaller, m \in Metric }

InsightsRequest ==
    [ metrics      : MetricSets(MaxMetrics) \ { {} },
      timeframe    : Timeframe \cup {None},
      since        : SuppliedStamps \cup {NoneInt},
      until        : SuppliedStamps \cup {NoneInt},
      access_token : {None, "request_token"} ]

(***************************************************************************)
(* InstagramGraphService.get_insights                                      *)
(***************************************************************************)
\* The list the validation compares the requested metrics against.
TwoDemographicMetrics ==
    { "audience_demographics", "engaged_audience_demographics" }
demographic_metrics ==
    { "audience_demographics", "engaged_audience_demographics",
      "follower_demographics" }

\* Python truthiness of an Optional value: None, 0 and "" are falsy.
Truthy(v) == v # None /\ v # ""
TruthyInt(v) == v # NoneInt /\ v # 0

\* any(m in demographic_metrics for m in request.metrics) and not request.timeframe
Rejects(req) ==
    /\ \E m \in req.metrics : m \in demographic_metrics
    /\ ~Truthy(req.timeframe)

\* tomorrow = now + 1 day; one_year_ago = tomorrow - 365 days;
\* int(one_year_ago.timestamp())
DefaultSinceFromNow(now) == timestamp(now - DefaultDaysBack * SecondsPerDay)
DefaultSince(now) == timestamp(now + SecondsPerDay - DefaultDaysBack * SecondsPerDay)
\* int(datetime.now().timestamp())
DefaultUntil(now) == timestamp(now)

BuildParams(req, now, later) ==
    [ metric       |-> req.metrics,
      access_token |-> IF Truthy(req.access_token) THEN req.access_token
                       ELSE ConfiguredToken,
      timeframe    |-> IF Truthy(req.timeframe) THEN req.timeframe ELSE None,
      since        |-> IF TruthyInt(req.since) THEN req.since ELSE DefaultSince(now),
      until        |-> IF TruthyInt(req.until) THEN req.until ELSE DefaultUntil(later) ]

NoParams == [ metric |-> {}, access_token |-> None, timeframe |-> None,
              since |-> 0, until |-> 0 ]
NoRequest == [ metrics |-> {}, timeframe |-> None, since |-> NoneInt,
               until |-> NoneInt, access_token |-> None ]
NoOutcome == [ kind |-> "none", status |-> 0, detail |-> << >> ]

HTTP_400_BAD_REQUEST == 400
HTTP_500_INTERNAL_SERVER_ERROR == 500
HTTP_503_SERVICE_UNAVAILABLE == 503

\* What one upstream GET can end in: a 2xx body that parses (with or without
\* a paging.next cursor in it), a 2xx body that does not fit
\* InstagramResponse (any other exception), an error status
\* (httpx.HTTPStatusError) or a transport failure (httpx.RequestError).
\* `text` is e.response.text, or str(e): a text is a sequence of parts, so
\* that an f-string is a concatenation; the texts tried are the ones that
\* open like a detail of get_insights itself.
UpstreamStatuses == { 400, 404, 500, 503 }
ErrorTexts == { << "Instagram API error: " >>, << "Error connecting to Instagram API: " >> }
NoUpstream == [ kind |-> "none", status |-> 0, text |-> << >>, paging |-> FALSE ]
UpstreamOutcomes ==
    { [ kind |-> "ok", status |-> 200, text |-> << >>, paging |-> p ] : p \in BOOLEAN }
    \cup { [ kind |-> "unparsable", status |-> 200, text |-> t, paging |-> FALSE ] :
              t \in ErrorTexts }
    \cup { [ kind |-> "request_error", status |-> 0, text |-> t, paging |-> FALSE ] :
              t \in ErrorTexts }
    \cup { [ kind |-> "status_error", status |-> st, text |-> t, paging |-> FALSE ] :
              st \in UpstreamStatuses, t \in ErrorTexts }

\* The return statement and the except clauses of get_insights, in order.
MapOutcomeBareDetail(up) ==
    CASE up.kind = "ok"            -> [ kind |-> "success", status |-> 200,
                                        detail |-> << >> ]
      [] up.kind = "status_error"  -> [ kind |-> "HTTPException", status |-> up.status,
                                        detail |-> up.text ]
      [] up.kind = "request_error" -> [ kind |-> "HTTPException",
                                        status |-> HTTP_503_SERVICE_UNAVAILABLE,
                                        detail |-> up.text ]
      [] OTHER                     -> [ kind |-> "HTTPException",
                                        status |-> HTTP_500_INTERNAL_SERVER_ERROR,
                                        detail |-> up.text ]
MapOutcome(up) ==
    CASE up.kind = "ok"            -> [ kind |-> "success", status |-> 200,
                                        detail |-> << >> ]
      [] up.kind = "status_error"  -> [ kind |-> "HTTPException", status |-> up.status,
                                        detail |-> << "Instagram API error: " >> \o up.text ]
      [] up.kind = "request_error" -> [ kind |-> "HTTPException",
                                        status |-> HTTP_503_SERVICE_UNAVAILABLE,
                                        detail |-> << "Error connecting to Instagram API: " >>
                                                   \o up.text ]
      [] OTHER                     -> [ kind |-> "HTTPException",
                                        status |-> HTTP_500_INTERNAL_SERVER_ERROR,
                                        detail |-> << "An unexpected error occurred: " >>
                                                   \o up.text ]

\* The GETs issued for the request once the awaited response has been
\* handled: neither the return statement nor an except clause issues one.
GetsAfterResponseRepeating(up, gets) == IF up.kind = "ok" /\ ~up.paging THEN gets ELSE gets + 1
GetsAfterResponse(up, gets) == gets

GiInit ==
    /\ gi_pc = "idle"
    /\ gi_req = NoRequest
    /\ gi_now = 0
    /\ gi_later = 0
    /\ gi_params = NoParams
    /\ gi_gets = 0
    /\ gi_calls = 0
    /\ gi_up = NoUpstream
    /\ gi_out = NoOutcome

\* get_insights up to its first suspension point: validation, parameter
\* building and the client.get(...) that is sent.
GetInsightsCall(req, now, later) ==
    /\ gi_pc = "idle"
    /\ gi_req' = req
    /\ gi_now' = (IF Rejects(req) \/ TruthyInt(req.since) THEN 0 ELSE now)
    /\ gi_later' = (IF Rejects(req) \/ TruthyInt(req.until) THEN 0 ELSE later)
    /\ gi_calls' = 1
    /\ gi_up' = NoUpstream
    /\ IF Rejects(req)
       THEN /\ gi_out' = [ kind |-> "HTTPException", status |-> HTTP_400_BAD_REQUEST,
                           detail |-> << "Timeframe is required for demographic metrics" >> ]
            /\ gi_params' = NoParams
            /\ gi_gets' = 0
            /\ gi_pc' = "done"
       ELSE /\ gi_out' = NoOutcome
            /\ gi_params' = BuildParams(req, now, later)
            /\ gi_gets' = 1
            /\ gi_pc' = "awaiting"
    /\ UNCHANGED gi_frame

\* The awaited GET completes; the response is checked, parsed and mapped.
GetInsightsResponse(up) ==
    /\ gi_pc = "awaiting"
    /\ gi_up' = up
    /\ gi_out' = MapOutcome(up)
    /\ gi_gets' = GetsAfterResponse(up, gi_gets)
    /\ gi_pc' = "done"
    /\ UNCHANGED <<gi_req, gi_now, gi_later, gi_params, gi_calls>>
    /\ UNCHANGED gi_frame

\* The caller has taken the outcome; the service is ready for another request.
GetInsightsReturn ==
    /\ gi_pc = "done"
    /\ gi_pc' = "idle"
    /\ gi_req' = NoRequest
    /\ gi_params' = NoParams
    /\ gi_gets' = 0
    /\ gi_calls' = 0
    /\ gi_up' = NoUpstream
    /\ gi_out' = NoOutcome
    /\ gi_now' = 0
    /\ gi_later' = 0
    /\ UNCHANGED gi_frame

\* The steps of the insights endpoint (the guards are repeated in front of the
\* quantifiers so that the inputs are enumerated only where the step can run).
GiNext ==
    \/ /\ gi_pc = "idle"
       /\ \E req \in InsightsRequest, now \in ClockReadings, e \in Elapsed :
             GetInsightsCall(req, now, now + e)
    \/ /\ gi_pc = "awaiting"
       /\ \E up \in UpstreamOutcomes : GetInsightsResponse(up)
    \/ GetInsightsReturn

(***************************************************************************)
(* InstagramGraphAPI._make_request, wrapped by                             *)
(*   @retry(stop=stop_after_attempt(3),                                    *)
(*          wait=wait_exponential(multiplier=1, min=2, max=10))            *)
(***************************************************************************)
StopAfterAttempt == 3
WaitMultiplier == 1
WaitMin == 2
WaitMax == 10
ExpBase == 2

Max(a, b) == IF a >= b THEN a ELSE b
Min(a, b) == IF a <= b THEN a ELSE b

RECURSIVE Pow(_, _)
Pow(b, n) == IF n = 0 THEN 1 ELSE b * Pow(b, n - 1)

\* wait_exponential.__call__: multiplier * exp_base ** (attempt_number - 1),
\* clamped to [min, max].
wait_exponential(attempt) ==
    Max(Max(0, WaitMin), Min(WaitMultiplier * Pow(ExpBase, attempt - 1), WaitMax))

\* stop_after_attempt.__call__: attempt_number >= max_attempt_number
StopsOneLate(attempt) == attempt > StopAfterAttempt
stop_after_attempt(attempt) == attempt >= StopAfterAttempt

Endpoints == { "me", "me/media", "me/insights", "ig_hashtag_search" }

\* How one attempt can end: response.json() is returned, raise_for_status()
\* raises HTTPError for a 4xx/5xx status, requests.get raises a
\* RequestException, or the body is not JSON (ValueError).
AttemptOutcomes ==
    { [ kind |-> "ok", status |-> 200 ],
      [ kind |-> "ValueError", status |-> 200 ],
      [ kind |-> "RequestException", status |-> 0 ] }
    \cup { [ kind |-> "HTTPError", status |-> s ] : s \in UpstreamStatuses }

\* What the caller of _make_request observes: nothing yet, the returned
\* body, or the exception that reaches it.  Without reraise=True the retry
\* decorator ends a call whose attempts are used up with
\* `raise RetryError(last_attempt) from last_attempt.exception()`.
NoCallOutcome == [ kind |-> "none", status |-> 0, cause |-> "none" ]
Returned == [ kind |-> "returned", status |-> 200, cause |-> "none" ]
RetryExhaustedSwallowed(o) == Returned
RetryExhausted(o) == [ kind |-> "RetryError", status |-> o.status, cause |-> o.kind ]

\* The handlers of the aggregator router (aggregate_data, get_profile, ...)
\* answer with the result, or turn any exception that reaches them into
\* HTTPException(500).
EndpointStatus(out) ==
    IF out.kind = "returned" THEN out.status ELSE HTTP_500_INTERNAL_SERVER_ERROR

RqInit ==
    /\ rq_pc = "idle"
    /\ rq_endpoint = None
    /\ rq_sent = << >>
    /\ rq_log = << >>
    /\ rq_delays = << >>
    /\ rq_out = NoCallOutcome

\* One execution of the function body up to requests.get: the token is put
\* into the parameters and the GET is sent.
SendAttempt(n) ==
    rq_sent' = Append(rq_sent, [ attempt |-> n, access_token |-> ConfiguredToken ])

\* A caller invokes _make_request: the first attempt starts.
MakeRequestCall(endpoint) ==
    /\ rq_pc = "idle"
    /\ rq_endpoint' = endpoint
    /\ SendAttempt(1)
    /\ rq_log' = << >>
    /\ rq_delays' = << >>
    /\ rq_out' = NoCallOutcome
    /\ rq_pc' = "attempting"
    /\ UNCHANGED rq_frame

\* The attempt in progress ends.  A returned body ends the call; every
\* exception is re-raised by the except clauses and reaches the retry
\* decorator, whose default predicate retries on any exception: it gives up
\* with RetryError once stop_after_attempt says so and sleeps otherwise.
AttemptEnds(o) ==
    /\ rq_pc = "attempting"
    /\ rq_log' = Append(rq_log, o)
    /\ LET attempt == Len(rq_sent)
       IN  IF o.kind = "ok"
           THEN /\ rq_out' = Returned
                /\ rq_pc' = "done"
                /\ UNCHANGED rq_delays
           ELSE IF stop_after_attempt(attempt)
           THEN /\ rq_out' = RetryExhausted(o)
                /\ rq_pc' = "done"
                /\ UNCHANGED rq_delays
           ELSE /\ rq_delays' = Append(rq_delays, wait_exponential(attempt))
                /\ rq_pc' = "sleeping"
                /\ UNCHANGED rq_out
    /\ UNCHANGED <<rq_endpoint, rq_sent>>
    /\ UNCHANGED rq_frame

\* The sleep between two attempts is over: the function body runs again.
SleepEnds ==
    /\ rq_pc = "sleeping"
    /\ SendAttempt(Len(rq_sent) + 1)
    /\ rq_pc' = "attempting"
    /\ UNCHANGED <<rq_endpoint, rq_log, rq_delays, rq_out>>
    /\ UNCHANGED rq_frame

\* The caller has taken the result.
MakeRequestReturn ==
    /\ rq_pc = "done"
    /\ rq_pc' = "idle"
    /\ rq_endpoint' = None
    /\ rq_sent' = << >>
    /\ rq_log' = << >>
    /\ rq_delays' = << >>
    /\ rq_out' = NoCallOutcome
    /\ UNCHANGED rq_frame

RqNext ==
    \/ /\ rq_pc = "idle"
       /\ \E e \in Endpoints : MakeRequestCall(e)
    \/ /\ rq_pc = "attempting"
       /\ \E o \in AttemptOutcomes : AttemptEnds(o)
    \/ SleepEnds
    \/ MakeRequestReturn

(***************************************************************************)
(* InstagramGraphAPI.get_user_media and get_hashtag_media: the first page  *)
(* through _make_request, the following pages with requests.get on the     *)
(* cursor in response["paging"]["next"].                                   *)
(***************************************************************************)
\* Bounds on the modelled upstream: pages of a listing, items on one page,
\* and the largest limit a caller passes.
MaxPages == 3
MaxPageSize == 2
MaxLimit == 3

RECURSIVE SeqsUpTo(_, _)
\* The sequences over S of length 0..n.
SeqsUpTo(S, n) ==
    IF n = 0 THEN { << >> }
    ELSE LET shorter == SeqsUpTo(S, n - 1)
         IN  shorter \cup { Append(q, x) : q \in shorter, x \in S }

RECURSIVE Sum(_)
Sum(seq) == IF seq = << >> THEN 0 ELSE Head(seq) + Sum(Tail(seq))

Take(seq, n) == SubSeq(seq, 1, Min(n, Len(seq)))

\* A paging layout: how many items each page of the listing carries (the
\* items are numbered 1, 2, ... in upstream order), whether the upstream
\* keeps handing out a next cursor, with empty pages, after the last item,
\* and whether the paging.next URLs it hands out embed the access token.
Layouts ==
    [ sizes   : SeqsUpTo(0..MaxPageSize, MaxPages) \ { << >> },
      endless : BOOLEAN,
      tokenInNext : BOOLEAN ]
NoLayout == [ sizes |-> <<0>>, endless |-> FALSE, tokenInNext |-> FALSE ]

TotalAvailable(up) == Sum(up.sizes)

\* The JSON body of page k of the listing.
PageResponse(up, k) ==
    IF k <= Len(up.sizes)
    THEN LET offset == Sum(SubSeq(up.sizes, 1, k - 1))
         IN  [ hasData |-> TRUE,
               data    |-> [ i \in 1..up.sizes[k] |-> offset + i ],
               hasNext |-> (k < Len(up.sizes) \/ up.endless),
               next    |-> k + 1 ]
    ELSE [ hasData |-> TRUE, data |-> << >>, hasNext |-> TRUE, next |-> k ]

\* A body with neither "data" nor "paging" (an error body, or {}).
BareResponse == [ hasData |-> FALSE, data |-> << >>, hasNext |-> FALSE, next |-> 0 ]

PgInit ==
    /\ pg_pc = "idle"
    /\ pg_op = None
    /\ pg_limit = 0
    /\ pg_up = NoLayout
    /\ pg_cursor = 0
    /\ pg_list = << >>
    /\ pg_followed = {}
    /\ pg_repeat = FALSE
    /\ pg_failed = FALSE
    /\ pg_sent = {}
    /\ pg_turn = 0
    /\ pg_out = [ kind |-> "none", items |-> << >> ]

\* return media_list[:limit]
Untruncated(list, limit) == list
Truncate(list, limit) == Take(list, limit)

\* params["access_token"] = self.access_token
WithoutToken(request) == request
WithToken(request) == [ request EXCEPT !.access_token = ConfiguredToken ]

\* An attempt of the first page's request, inside _make_request.
FirstPageRequest(n) ==
    WithToken([ via |-> "_make_request", page |-> 1, attempt |-> n,
                access_token |-> None ])

\* requests.get(response["paging"]["next"]): the URL is requested as the
\* upstream gave it, with no parameters of the client's.
FollowUpRequest(cursor) ==
    [ via |-> "requests.get", page |-> cursor, attempt |-> 1,
      access_token |-> IF pg_up.tokenInNext THEN ConfiguredToken ELSE None ]

\* The attempts _make_request has made for the first page.
FirstPageAttempts == Cardinality({ r \in pg_sent : r.via = "_make_request" })

\* except Exception: ... break, followed by return media_list[:limit]
PagingRaises(list) == [ kind |-> "raised", items |-> << >> ]
PagingBroken(list) == [ kind |-> "returned", items |-> Take(list, pg_limit) ]

\* "paging" in response and "next" in response["paging"] and len(media_list) < limit
LoopCondition(resp, list, limit) == resp.hasNext /\ Len(list) < limit

\* The loop test after `resp` has been handled: either the next cursor is
\* requested or the accessor returns the truncated list.
PagedContinue(resp, list) ==
    IF LoopCondition(resp, list, pg_limit)
    THEN /\ pg_cursor' = resp.next
         /\ pg_followed' = pg_followed \cup {resp.next}
         /\ pg_repeat' = (pg_repeat \/ resp.next \in pg_followed)
         /\ pg_sent' = pg_sent \cup { FollowUpRequest(resp.next) }
         /\ pg_turn' = 1 - pg_turn
         /\ pg_pc' = "paging"
         /\ UNCHANGED pg_out
    ELSE /\ pg_out' = [ kind |-> "returned", items |-> Truncate(list, pg_limit) ]
         /\ pg_pc' = "done"
         /\ UNCHANGED <<pg_cursor, pg_followed, pg_repeat, pg_sent, pg_turn>>

\* get_user_media(limit) or get_hashtag_media(id, limit) is called: the first
\* page is requested through _make_request.
PagedCall(op, limit, up) ==
    /\ pg_pc = "idle"
    /\ pg_op' = op
    /\ pg_limit' = limit
    /\ pg_up' = up
    /\ pg_cursor' = 1
    /\ pg_list' = << >>
    /\ pg_followed' = {}
    /\ pg_repeat' = FALSE
    /\ pg_failed' = FALSE
    /\ pg_sent' = { FirstPageRequest(1) }
    /\ pg_turn' = 0
    /\ pg_out' = [ kind |-> "none", items |-> << >> ]
    /\ pg_pc' = "first"
    /\ UNCHANGED pg_frame

\* An attempt of _make_request ends.  A failed attempt is followed by the
\* next one until the attempts are used up, and then the accessor raises
\* with _make_request; otherwise a body with or without "data" is returned.
FirstPageEnds(kind) ==
    /\ pg_pc = "first"
    /\ CASE kind = "raise" ->
              IF stop_after_attempt(FirstPageAttempts)
              THEN /\ pg_out' = [ kind |-> "raised", items |-> << >> ]
                   /\ pg_pc' = "done"
                   /\ pg_failed' = TRUE
                   /\ UNCHANGED <<pg_list, pg_cursor, pg_followed, pg_repeat, pg_sent,
                                  pg_turn>>
              ELSE /\ pg_sent' = pg_sent \cup { FirstPageRequest(FirstPageAttempts + 1) }
                   /\ UNCHANGED <<pg_pc, pg_out, pg_failed, pg_list, pg_cursor,
                                  pg_followed, pg_repeat, pg_turn>>
         [] kind = "nodata" ->
              /\ pg_out' = [ kind |-> "returned", items |-> Truncate(<< >>, pg_limit) ]
              /\ pg_pc' = "done"
              /\ pg_failed' = TRUE
              /\ UNCHANGED <<pg_list, pg_cursor, pg_followed, pg_repeat, pg_sent, pg_turn>>
         [] OTHER ->
              LET resp == PageResponse(pg_up, 1)
              IN  /\ pg_list' = resp.data
                  /\ PagedContinue(resp, resp.data)
                  /\ UNCHANGED pg_failed
    /\ UNCHANGED <<pg_op, pg_limit, pg_up>>
    /\ UNCHANGED pg_frame

\* requests.get(next).json() ends: an exception leaves the loop, a body
\* without "data" adds nothing, a page extends media_list.
FollowPageEnds(kind) ==
    /\ pg_pc = "paging"
    /\ CASE kind = "exception" ->
              /\ pg_out' = PagingBroken(pg_list)
              /\ pg_pc' = "done"
              /\ pg_failed' = TRUE
              /\ UNCHANGED <<pg_list, pg_cursor, pg_followed, pg_repeat, pg_sent, pg_turn>>
         [] kind = "error_body" ->
              /\ PagedContinue(BareResponse, pg_list)
              /\ pg_failed' = TRUE
              /\ UNCHANGED pg_list
         [] OTHER ->
              LET resp == PageResponse(pg_up, pg_cursor)
                  list == pg_list \o resp.data
              IN  /\ pg_list' = list
                  /\ PagedContinue(resp, list)
                  /\ UNCHANGED pg_failed
    /\ UNCHANGED <<pg_op, pg_limit, pg_up>>
    /\ UNCHANGED pg_frame

\* The caller has taken the result.
PagedReturn ==
    /\ pg_pc = "done"
    /\ pg_pc' = "idle"
    /\ pg_op' = None
    /\ pg_limit' = 0
    /\ pg_up' = NoLayout
    /\ pg_cursor' = 0
    /\ pg_list' = << >>
    /\ pg_followed' = {}
    /\ pg_repeat' = FALSE
    /\ pg_failed' = FALSE
    /\ pg_sent' = {}
    /\ pg_turn' = 0
    /\ pg_out' = [ kind |-> "none", items |-> << >> ]
    /\ UNCHANGED pg_frame

PgNext ==
    \/ /\ pg_pc = "idle"
       /\ \E op \in {"get_user_media", "get_hashtag_media"},
             limit \in 0..MaxLimit, up \in Layouts : PagedCall(op, limit, up)
    \/ /\ pg_pc = "first"
       /\ \E kind \in {"page", "nodata", "raise"} : FirstPageEnds(kind)
    \/ /\ pg_pc = "paging"
       /\ \E kind \in {"page", "error_body", "exception"} : FollowPageEnds(kind)
    \/ PagedReturn

(***************************************************************************)
(* SupabaseClient.upsert_data: the gateway's table, upserted by id          *)
(***************************************************************************)
\* A record's id is a sequence of name parts, so that f"{x}_insights" is x
\* followed by "_insights"; the empty sequence is a missing (or empty) id.
NoId == << >>
InsightsId(id) == id \o << "_insights" >>

\* table(name).insert(data): a new row whatever the table holds.
Insert(rows, rec) == Append(rows, rec)
\* table(name).upsert(data, on_conflict="id"): the row with the record's id is
\* replaced, a record with a new id becomes a new row.
Upsert(rows, rec) ==
    IF \E i \in 1..Len(rows) : rows[i].id = rec.id
    THEN [ i \in 1..Len(rows) |-> IF rows[i].id = rec.id THEN rec ELSE rows[i] ]
    ELSE Append(rows, rec)

\* The conflict column is the table's key: a record without it is refused.
GatewayAccepts(rec) == rec.id # NoId

\* upsert_data raises: the exception is logged and re-raised by the client
\* and by the operation that called it; nothing takes back what the earlier
\* upserts wrote.
RefusedRollsBack(rows, rec) == SelectSeq(rows, LAMBDA r : r.data_type # rec.data_type)
Refused(rows, rec) == rows

\* How one upsert_data call can end: the response is returned, or the
\* exception of the client is logged and re-raised.
GatewayOutcomes(rec) == IF GatewayAccepts(rec) THEN { "ok", "fail" } ELSE { "fail" }

(***************************************************************************)
(* InstagramDataAggregator                                                 *)
(***************************************************************************)
\* Bounds: the largest media_limit and the longest hashtag list of a run, and
\* the same for a run that is repeated against the same gateway.
MaxMedia == 2
MaxTags == 2
MaxRerunMedia == 1
MaxRerunTags == 1

\* The upstream account: its id, its media in upstream order, the hashtags a
\* caller asks for, and the recent media of a hashtag (the account's own
\* first post leads each hashtag's listing).
UserId == << "u1" >>
MediaId(k) == << "m", ToString(k) >>
TagName(j) == << "tag", ToString(j) >>
HashtagId(tag) == << "h" >> \o tag
TagMediaId(tag, k) == IF k = 1 THEN MediaId(1) ELSE << "x" >> \o tag \o << ToString(k) >>

\* The list get_user_media(limit) returns: items with their id, or with the
\* last item lacking one.
UserMedia(limit, lastHasId) ==
    [ k \in 1..limit |->
        [ id |-> IF k = limit /\ ~lastHasId THEN NoId ELSE MediaId(k) ] ]
TagMedia(tag, limit) == [ k \in 1..limit |-> [ id |-> TagMediaId(tag, k) ] ]

\* A record as it is handed to the gateway.  fetched_at is utcnow() read as
\* the record is built; the clock stands still while a run lasts and may
\* move between two runs.
RowAsFetched(id, dataType, source) ==
    [ id |-> id, data_type |-> "none", fetched_at |-> NoneInt, source |-> source ]
Row(id, dataType, source) ==
    [ id |-> id, data_type |-> dataType, fetched_at |-> ag_now, source |-> source ]

\* class DataType(str, Enum)
DataType == { "profile", "media", "media_insights", "user_insights", "hashtag_media" }
NoRow == [ id |-> NoId, data_type |-> "none", fetched_at |-> 0, source |-> << >> ]

NoResult == [ kind |-> "none", summary |-> << >>, error |-> "" ]

\* The positions at which a call to the upstream or to the gateway is in
\* flight, and the step of aggregate_all_data each belongs to.
UpstreamCalls == { "profile_fetch", "media_fetch", "mi_fetch", "ui_fetch",
                   "ui_profile", "ht_id", "ht_media" }
GatewayCalls == { "profile_store", "media_store", "mi_store", "ui_store", "ht_store" }
StepOf(pc) ==
    CASE pc \in { "profile_fetch", "profile_store" } -> "profile"
      [] pc \in { "media_fetch", "media_store" }     -> "media"
      [] pc \in { "mi_fetch", "mi_store" }           -> "media_insights"
      [] pc \in { "ui_fetch", "ui_profile", "ui_store" } -> "user_insights"
      [] pc \in { "ht_id", "ht_media", "ht_store" }  -> "hashtags"
      [] OTHER -> "none"

\* The locals of a run of aggregate_all_data that has not started.
FreshRun ==
    [ pc |-> "idle", limit |-> 0, hashtags |-> << >>, summary |-> << >>,
      media |-> << >>, stored |-> << >>, i |-> 0, mi |-> << >>, h |-> 0,
      htres |-> << >>, tmedia |-> << >>, tstored |-> << >>, k |-> 0, rec |-> NoRow,
      uidata |-> FALSE, calls |-> << >>, result |-> NoResult, tape |-> << >>, pos |-> 1 ]

AgInit ==
    /\ ag_pc = "idle"
    /\ ag_limit = 0
    /\ ag_hashtags = << >>
    /\ ag_summary = << >>
    /\ ag_media = << >>
    /\ ag_stored = << >>
    /\ ag_i = 0
    /\ ag_mi = << >>
    /\ ag_h = 0
    /\ ag_htres = << >>
    /\ ag_tmedia = << >>
    /\ ag_tstored = << >>
    /\ ag_k = 0
    /\ ag_rec = NoRow
    /\ ag_uidata = FALSE
    /\ ag_calls = << >>
    /\ ag_result = NoResult
    /\ ag_now = 0
    /\ ag_run = 0
    /\ ag_tape = << >>
    /\ ag_pos = 1
    /\ ag_snap = << >>
    /\ ag_other = FreshRun
    /\ ag_cur = 1
    /\ db = << >>

\* The call now in flight (if any) joins the record of the run's calls.
LogCallFanOut ==
    ag_calls' = IF ag_pc' = "mi_fetch" /\ ag_pc # "mi_fetch"
                THEN ag_calls \o [ j \in 1..Len(ag_stored') |-> "mi_fetch" ]
                ELSE IF ag_pc' \in UpstreamCalls \cup GatewayCalls
                THEN Append(ag_calls, ag_pc') ELSE ag_calls
LogCall ==
    ag_calls' = IF ag_pc' \in UpstreamCalls \cup GatewayCalls
                THEN Append(ag_calls, ag_pc') ELSE ag_calls

\* An answer of the upstream or of the gateway.  The first run takes any
\* answer and records it; a later run gets the answers of the first run
\* again, for as long as the first run got any.
Answer(a) ==
    /\ ag_pos <= Len(ag_tape) => a = ag_tape[ag_pos]
    /\ ag_pos' = ag_pos + 1
    /\ ag_tape' = IF ag_run = 1 THEN Append(ag_tape, a) ELSE ag_tape

\* summary[key] = value
SetKey(summary, key, value) ==
    [ k \in DOMAIN summary \cup {key} |-> IF k = key THEN value ELSE summary[k] ]

\* An exception leaves aggregate_all_data through its outer handler, which
\* logs and re-raises: the caller gets the exception and no summary.
Raise(msg) ==
    /\ ag_pc' = "failed"
    /\ ag_result' = [ kind |-> "raised", summary |-> << >>, error |-> msg ]

\* return summary
ReturnSummary(summary) ==
    /\ ag_summary' = summary
    /\ ag_pc' = "done"
    /\ ag_result' = [ kind |-> "returned", summary |-> summary, error |-> "" ]

\* {"count": len(hashtag_results), "items": hashtag_results}
CountSuccesses(htres) ==
    [ count |-> Cardinality({ j \in 1..Len(htres) : htres[j].status = "success" }),
      items |-> htres ]
TagsEntry(htres) == [ count |-> Len(htres), items |-> htres ]

\* The loop over hashtags from position h on, hashtag_results being htres.
TagLoop(summary, h, htres) ==
    IF h <= Len(ag_hashtags)
    THEN /\ ag_pc' = "ht_id"
         /\ ag_h' = h
         /\ ag_htres' = htres
         /\ ag_summary' = summary
         /\ UNCHANGED ag_result
    ELSE /\ ReturnSummary(SetKey(summary, "hashtags", TagsEntry(htres)))
         /\ ag_h' = h
         /\ ag_htres' = htres

\* if hashtags: ... ; return summary
TagStep(summary) ==
    IF ag_hashtags # << >>
    THEN TagLoop(summary, 1, << >>)
    ELSE ReturnSummary(summary) /\ UNCHANGED <<ag_h, ag_htres>>

\* The user insights step has ended with `status`: on to the hashtags.
AfterUserInsights(status) == TagStep(SetKey(ag_summary, "user_insights", status))

RECURSIVE NextWithId(_, _)
\* The first position from i on whose media item carries an id (if media_id:),
\* or Len + 1.
NextWithId(list, i) ==
    IF i > Len(list) THEN i
    ELSE IF list[i].id # NoId THEN i
    ELSE NextWithId(list, i + 1)

\* The loop over the stored media from position i on, media_insights being
\* mi; after the loop the user insights are fetched.
InsightsLoop(summary, list, i, mi) ==
    LET j == NextWithId(list, i)
    IN  /\ ag_i' = j
        /\ ag_mi' = mi
        /\ IF j <= Len(list)
           THEN /\ ag_pc' = "mi_fetch"
                /\ ag_summary' = summary
           ELSE /\ ag_pc' = "ui_fetch"
                /\ ag_summary' = SetKey(summary, "media_insights",
                                        [ count |-> Len(mi), items |-> mi ])

\* fetch_and_store_media has returned `stored`.
AfterMedia(stored) ==
    InsightsLoop(SetKey(ag_summary, "media",
                        [ count |-> Len(stored), status |-> "success" ]),
                 stored, 1, << >>)

MiSuccess(id) == [ media_id |-> id, status |-> "success" ]
MiError(id, msg) == [ media_id |-> id, status |-> "error", error |-> msg ]
StatusSuccess == [ status |-> "success" ]
StatusError(msg) == [ status |-> "error", error |-> msg ]
TagSuccess(tag, n) == [ hashtag |-> tag, count |-> n, status |-> "success" ]
TagError(tag, msg) == [ hashtag |-> tag, status |-> "error", error |-> msg ]

\* An exception in fetch_and_store_profile is not caught before the outer
\* handler of aggregate_all_data.
ProfileFailureSwallowed(msg) == ag_pc' = "media_fetch" /\ UNCHANGED ag_result
ProfileFailure(msg) == Raise(msg)

\* Nor is an exception in fetch_and_store_media.
MediaFailureSwallowed(msg) == ag_pc' = "ui_fetch" /\ UNCHANGED ag_result
MediaFailure(msg) == Raise(msg)

\* An exception in fetch_and_store_media_insights is caught inside the loop
\* over the media: the item gets an error entry and the loop goes on.
MediaInsightsFailureEndsLoop(msg) ==
    InsightsLoop(ag_summary, ag_stored, Len(ag_stored) + 1,
                 Append(ag_mi, MiError(ag_stored[ag_i].id, msg)))
MediaInsightsFailure(msg) ==
    InsightsLoop(ag_summary, ag_stored, ag_i + 1,
                 Append(ag_mi, MiError(ag_stored[ag_i].id, msg)))

\* An exception in fetch_and_store_user_insights is caught: the summary gets
\* an error entry and the run goes on with the hashtags.
UserInsightsFailurePropagates(msg) ==
    Raise(msg) /\ UNCHANGED <<ag_summary, ag_h, ag_htres>>
UserInsightsFailure(msg) == AfterUserInsights(StatusError(msg))

\* An exception in fetch_and_store_hashtag_media is caught inside the loop
\* over the hashtags: the hashtag gets an error entry and the loop goes on.
HashtagFailureEndsLoop(msg) ==
    TagLoop(ag_summary, Len(ag_hashtags) + 1,
            Append(ag_htres, TagError(ag_hashtags[ag_h], msg)))
HashtagFailure(msg) ==
    TagLoop(ag_summary, ag_h + 1,
            Append(ag_htres, TagError(ag_hashtags[ag_h], msg)))

\* What no step of a run changes: its arguments, the clock reading, the run
\* number and the first run's table.
ag_fixed == <<ag_limit, ag_hashtags, ag_now, ag_run, ag_snap, ag_other, ag_cur>>
ag_mediavars == <<ag_media, ag_stored, ag_i, ag_mi>>
ag_tagvars == <<ag_h, ag_htres, ag_tmedia, ag_tstored, ag_k>>

\* aggregate_all_data(media_limit, hashtags) is called: summary = {} and
\* fetch_and_store_profile asks the upstream for the profile.
AggStart(limit, tags) ==
    /\ ag_pc = "idle"
    /\ ag_run' = 1
    /\ ag_limit' = limit
    /\ ag_hashtags' = tags
    /\ ag_summary' = << >>
    /\ ag_pc' = "profile_fetch"
    /\ LogCall
    /\ UNCHANGED <<ag_mediavars, ag_tagvars, ag_rec, ag_uidata, ag_result,
                   ag_now, ag_tape, ag_pos, ag_snap, ag_other, ag_cur, db>>
    /\ UNCHANGED ag_frame

\* fetch_and_store_profile: get_user_profile answers.
ProfileFetched(o) ==
    /\ ag_pc = "profile_fetch"
    /\ Answer(o)
    /\ IF o = "raise"
       THEN /\ ProfileFailure("upstream")
            /\ UNCHANGED ag_rec
       ELSE /\ ag_rec' = Row(IF o = "ok" THEN UserId ELSE NoId, "profile", << "profile" >>)
            /\ ag_pc' = "profile_store"
            /\ UNCHANGED ag_result
    /\ LogCall
    /\ UNCHANGED <<ag_summary, ag_mediavars, ag_tagvars, ag_uidata, db, ag_fixed>>
    /\ UNCHANGED ag_frame

\* fetch_and_store_profile: the upsert of the profile ends; on success the
\* summary gets its profile entry and fetch_and_store_media starts.
ProfileStored(g) ==
    /\ ag_pc = "profile_store"
    /\ Answer(g)
    /\ IF g = "ok"
       THEN /\ db' = Upsert(db, ag_rec)
            /\ ag_summary' = SetKey(ag_summary, "profile",
                                    [ username |-> "alice", status |-> "success" ])
            /\ ag_pc' = "media_fetch"
            /\ UNCHANGED ag_result
       ELSE /\ ProfileFailure("gateway")
            /\ db' = Refused(db, ag_rec)
            /\ UNCHANGED ag_summary
    /\ LogCall
    /\ UNCHANGED <<ag_mediavars, ag_tagvars, ag_rec, ag_uidata, ag_fixed>>
    /\ UNCHANGED ag_frame

\* fetch_and_store_media: get_user_media(limit) answers.
MediaFetched(o) ==
    /\ ag_pc = "media_fetch"
    /\ Answer(o)
    /\ IF o = "raise"
       THEN /\ MediaFailure("upstream")
            /\ UNCHANGED <<ag_summary, ag_mediavars, ag_rec>>
       ELSE LET list == UserMedia(ag_limit, o = "ok")
            IN  /\ ag_media' = list
                /\ ag_stored' = << >>
                /\ UNCHANGED ag_result
                /\ IF list = << >>
                   THEN /\ AfterMedia(<< >>)
                        /\ UNCHANGED ag_rec
                   ELSE /\ ag_pc' = "media_store"
                        /\ ag_i' = 1
                        /\ ag_rec' = Row(list[1].id, "media", << "media" >>)
                        /\ UNCHANGED <<ag_summary, ag_mi>>
    /\ LogCall
    /\ UNCHANGED <<ag_tagvars, ag_uidata, db, ag_fixed>>
    /\ UNCHANGED ag_frame

\* fetch_and_store_media: the upsert of one media item ends.  A failure
\* leaves the loop and the function; after the last item the summary gets
\* its media entry and the loop over the stored media starts.
MediaStored(g) ==
    /\ ag_pc = "media_store"
    /\ Answer(g)
    /\ IF g = "ok"
       THEN LET stored == Append(ag_stored, ag_rec)
            IN  /\ db' = Upsert(db, ag_rec)
                /\ ag_stored' = stored
                /\ UNCHANGED <<ag_media, ag_result>>
                /\ IF ag_i < Len(ag_media)
                   THEN /\ ag_i' = ag_i + 1
                        /\ ag_rec' = Row(ag_media[ag_i + 1].id, "media", << "media" >>)
                        /\ UNCHANGED <<ag_pc, ag_summary, ag_mi>>
                   ELSE /\ AfterMedia(stored)
                        /\ UNCHANGED ag_rec
       ELSE /\ MediaFailure("gateway")
            /\ db' = Refused(db, ag_rec)
            /\ UNCHANGED <<ag_summary, ag_mediavars, ag_rec>>
    /\ LogCall
    /\ UNCHANGED <<ag_tagvars, ag_uidata, ag_fixed>>
    /\ UNCHANGED ag_frame


\* fetch_and_store_media_insights: get_media_insights(media_id) answers.  A
\* body with a "data" list is flattened and handed to the gateway, any other
\* body is returned as it is, an exception is caught by the loop.
MediaInsightsFetched(o) ==
    /\ ag_pc = "mi_fetch"
    /\ Answer(o)
    /\ LET id == ag_stored[ag_i].id
       IN  CASE o = "data" ->
                  /\ ag_rec' = Row(InsightsId(id), "media_insights", << "metrics" >>)
                  /\ ag_pc' = "mi_store"
                  /\ UNCHANGED <<ag_summary, ag_i, ag_mi>>
             [] o = "nodata" ->
                  /\ InsightsLoop(ag_summary, ag_stored, ag_i + 1,
                                  Append(ag_mi, MiSuccess(id)))
                  /\ UNCHANGED ag_rec
             [] OTHER ->
                  /\ MediaInsightsFailure("upstream")
                  /\ UNCHANGED ag_rec
    /\ LogCall
    /\ UNCHANGED <<ag_media, ag_stored, ag_tagvars, ag_uidata, ag_result, db, ag_fixed>>
    /\ UNCHANGED ag_frame

\* fetch_and_store_media_insights: the upsert of the flattened record ends.
MediaInsightsStored(g) ==
    /\ ag_pc = "mi_store"
    /\ Answer(g)
    /\ LET id == ag_stored[ag_i].id
       IN  IF g = "ok"
           THEN /\ db' = Upsert(db, ag_rec)
                /\ InsightsLoop(ag_summary, ag_stored, ag_i + 1,
                                Append(ag_mi, MiSuccess(id)))
           ELSE /\ MediaInsightsFailure("gateway")
                /\ db' = Refused(db, ag_rec)
    /\ LogCall
    /\ UNCHANGED <<ag_media, ag_stored, ag_tagvars, ag_rec, ag_uidata, ag_result,
                   ag_fixed>>
    /\ UNCHANGED ag_frame


\* fetch_and_store_user_insights: get_user_insights answers; on success the
\* profile is asked for the user id.
UserInsightsFetched(o) ==
    /\ ag_pc = "ui_fetch"
    /\ Answer(o)
    /\ IF o = "raise"
       THEN /\ UserInsightsFailure("upstream")
            /\ UNCHANGED ag_uidata
       ELSE /\ ag_uidata' = (o = "data")
            /\ ag_pc' = "ui_profile"
            /\ UNCHANGED <<ag_summary, ag_h, ag_htres, ag_result>>
    /\ LogCall
    /\ UNCHANGED <<ag_mediavars, ag_tmedia, ag_tstored, ag_k, ag_rec, db, ag_fixed>>
    /\ UNCHANGED ag_frame

\* fetch_and_store_user_insights: get_user_profile answers.  Without a user
\* id a ValueError is raised; a body with a "data" list is flattened and
\* handed to the gateway, any other body is returned as it is.
UserProfileFetched(o) ==
    /\ ag_pc = "ui_profile"
    /\ Answer(o)
    /\ CASE o = "raise" ->
              /\ UserInsightsFailure("upstream")
              /\ UNCHANGED ag_rec
         [] o = "noid" ->
              /\ UserInsightsFailure("no_user_id")
              /\ UNCHANGED ag_rec
         [] OTHER ->
              IF ag_uidata
              THEN /\ ag_rec' = Row(InsightsId(UserId), "user_insights", << "metrics" >>)
                   /\ ag_pc' = "ui_store"
                   /\ UNCHANGED <<ag_summary, ag_h, ag_htres, ag_result>>
              ELSE /\ AfterUserInsights(StatusSuccess)
                   /\ UNCHANGED ag_rec
    /\ LogCall
    /\ UNCHANGED <<ag_mediavars, ag_tmedia, ag_tstored, ag_k, ag_uidata, db, ag_fixed>>
    /\ UNCHANGED ag_frame

\* fetch_and_store_user_insights: the upsert of the flattened record ends.
UserInsightsStored(g) ==
    /\ ag_pc = "ui_store"
    /\ Answer(g)
    /\ IF g = "ok"
       THEN /\ db' = Upsert(db, ag_rec)
            /\ AfterUserInsights(StatusSuccess)
       ELSE /\ UserInsightsFailure("gateway")
            /\ db' = Refused(db, ag_rec)
    /\ LogCall
    /\ UNCHANGED <<ag_mediavars, ag_tmedia, ag_tstored, ag_k, ag_rec, ag_uidata,
                   ag_fixed>>
    /\ UNCHANGED ag_frame


\* get_hashtag_id: `"data" in response and response["data"]`, else
\* ValueError(f"Hashtag {hashtag_name} not found").
HashtagSearchAlwaysFinds(o) == TRUE
HashtagSearchFinds(o) == o = "found"

\* fetch_and_store_hashtag_media: get_hashtag_id answers with an id, raises
\* ValueError because the search found nothing, or raises with the request.
HashtagIdFetched(o) ==
    /\ ag_pc = "ht_id"
    /\ Answer(o)
    /\ LET tag == ag_hashtags[ag_h]
       IN  CASE o = "raise" -> HashtagFailure("upstream")
             [] HashtagSearchFinds(o) ->
                  /\ ag_pc' = "ht_media"
                  /\ UNCHANGED <<ag_summary, ag_h, ag_htres, ag_result>>
             [] OTHER -> HashtagFailure("not_found")
    /\ LogCall
    /\ UNCHANGED <<ag_mediavars, ag_tmedia, ag_tstored, ag_k, ag_rec, ag_uidata, db,
                   ag_fixed>>
    /\ UNCHANGED ag_frame

TagRow(tag, id) ==
    Row(id, "hashtag_media", << "hashtag" >> \o tag \o HashtagId(tag))

\* fetch_and_store_hashtag_media: get_hashtag_media(id, limit) answers.
HashtagMediaFetched(o) ==
    /\ ag_pc = "ht_media"
    /\ Answer(o)
    /\ LET tag == ag_hashtags[ag_h]
           list == TagMedia(tag, ag_limit)
       IN  IF o = "raise"
           THEN /\ HashtagFailure("upstream")
                /\ UNCHANGED <<ag_tmedia, ag_tstored, ag_k, ag_rec>>
           ELSE /\ ag_tmedia' = list
                /\ ag_tstored' = << >>
                /\ IF list = << >>
                   THEN /\ TagLoop(ag_summary, ag_h + 1,
                                   Append(ag_htres, TagSuccess(tag, 0)))
                        /\ UNCHANGED <<ag_k, ag_rec>>
                   ELSE /\ ag_pc' = "ht_store"
                        /\ ag_k' = 1
                        /\ ag_rec' = TagRow(tag, list[1].id)
                        /\ UNCHANGED <<ag_summary, ag_h, ag_htres, ag_result>>
    /\ LogCall
    /\ UNCHANGED <<ag_mediavars, ag_uidata, db, ag_fixed>>
    /\ UNCHANGED ag_frame

\* fetch_and_store_hashtag_media: the upsert of one item ends.  A failure
\* leaves the function and is caught by the loop over the hashtags.
HashtagMediaStored(g) ==
    /\ ag_pc = "ht_store"
    /\ Answer(g)
    /\ LET tag == ag_hashtags[ag_h]
       IN  IF g = "ok"
           THEN LET stored == Append(ag_tstored, ag_rec)
                IN  /\ db' = Upsert(db, ag_rec)
                    /\ ag_tstored' = stored
                    /\ UNCHANGED ag_tmedia
                    /\ IF ag_k < Len(ag_tmedia)
                       THEN /\ ag_k' = ag_k + 1
                            /\ ag_rec' = TagRow(tag, ag_tmedia[ag_k + 1].id)
                            /\ UNCHANGED <<ag_pc, ag_summary, ag_h, ag_htres, ag_result>>
                       ELSE /\ TagLoop(ag_summary, ag_h + 1,
                                       Append(ag_htres, TagSuccess(tag, Len(stored))))
                            /\ UNCHANGED <<ag_k, ag_rec>>
           ELSE /\ HashtagFailure("gateway")
                /\ db' = Refused(db, ag_rec)
                /\ UNCHANGED <<ag_tmedia, ag_tstored, ag_k, ag_rec>>
    /\ LogCall
    /\ UNCHANGED <<ag_mediavars, ag_uidata, ag_fixed>>
    /\ UNCHANGED ag_frame

\* The clock moves on between the first run and the second.
Tick ==
    /\ ag_pc \in { "done", "failed" }
    /\ ag_run = 1
    /\ ag_now = 0
    /\ ag_now' = ag_now + 1
    /\ UNCHANGED <<ag_pc, ag_limit, ag_hashtags, ag_summary, ag_mediavars, ag_tagvars,
                   ag_rec, ag_uidata, ag_calls, ag_result, ag_run, ag_tape, ag_pos,
                   ag_snap, ag_other, ag_cur, db>>
    /\ UNCHANGED ag_frame

\* aggregate_all_data is called again with the same arguments, against the
\* table the earlier runs have left.
Rerun ==
    /\ ag_pc \in { "done", "failed" }
    /\ ag_run = 1
    /\ ag_run' = 2
    /\ ag_snap' = db
    /\ ag_pos' = 1
    /\ ag_summary' = << >>
    /\ ag_media' = << >>
    /\ ag_stored' = << >>
    /\ ag_i' = 0
    /\ ag_mi' = << >>
    /\ ag_h' = 0
    /\ ag_htres' = << >>
    /\ ag_tmedia' = << >>
    /\ ag_tstored' = << >>
    /\ ag_k' = 0
    /\ ag_rec' = NoRow
    /\ ag_uidata' = FALSE
    /\ ag_result' = NoResult
    /\ ag_pc' = "profile_fetch"
    /\ ag_calls' = << "profile_fetch" >>
    /\ UNCHANGED <<ag_limit, ag_hashtags, ag_now, ag_tape, ag_other, ag_cur, db>>
    /\ UNCHANGED ag_frame

\* The hashtags a caller passes: the first k names.
Hashtags(k) == [ j \in 1..k |-> TagName(j) ]

\* The locals of the run in progress: the arguments and local variables of
\* aggregate_all_data and of the fetch_and_store operation it is in, with
\* the record of the run's own calls and their answers.
RunLocals ==
    [ pc |-> ag_pc, limit |-> ag_limit, hashtags |-> ag_hashtags,
      summary |-> ag_summary, media |-> ag_media, stored |-> ag_stored, i |-> ag_i,
      mi |-> ag_mi, h |-> ag_h, htres |-> ag_htres, tmedia |-> ag_tmedia,
      tstored |-> ag_tstored, k |-> ag_k, rec |-> ag_rec, uidata |-> ag_uidata,
      calls |-> ag_calls, result |-> ag_result, tape |-> ag_tape, pos |-> ag_pos ]

\* summary = {} is a local of aggregate_all_data: a run that resumes finds
\* its own summary, whatever the other run did meanwhile.
SummaryOfInstance(saved) == ag_summary
SummaryOnResume(saved) == saved.summary

\* The event loop passes control from one request's run to the other's.  A
\* run gives up control only where it awaits (the upsert_data calls), before
\* it has started and after it has ended; the singleton aggregator, its
\* clients and the table are the same for both.
Switch ==
    /\ ag_pc \in GatewayCalls \cup { "idle", "done", "failed" }
    /\ ag_other' = RunLocals
    /\ ag_cur' = 3 - ag_cur
    /\ ag_pc' = ag_other.pc
    /\ ag_limit' = ag_other.limit
    /\ ag_hashtags' = ag_other.hashtags
    /\ ag_summary' = SummaryOnResume(ag_other)
    /\ ag_media' = ag_other.media
    /\ ag_stored' = ag_other.stored
    /\ ag_i' = ag_other.i
    /\ ag_mi' = ag_other.mi
    /\ ag_h' = ag_other.h
    /\ ag_htres' = ag_other.htres
    /\ ag_tmedia' = ag_other.tmedia
    /\ ag_tstored' = ag_other.tstored
    /\ ag_k' = ag_other.k
    /\ ag_rec' = ag_other.rec
    /\ ag_uidata' = ag_other.uidata
    /\ ag_calls' = ag_other.calls
    /\ ag_result' = ag_other.result
    /\ ag_tape' = ag_other.tape
    /\ ag_pos' = ag_other.pos
    /\ UNCHANGED <<ag_now, ag_run, ag_snap, db>>
    /\ UNCHANGED ag_frame

\* The bodies of two POST /aggregate requests that overlap: one without
\* hashtags and one with a hashtag.
OverlapRequests ==
    { [ media_limit |-> 1, hashtags |-> << >> ],
      [ media_limit |-> 1, hashtags |-> Hashtags(1) ] }

\* The steps of a run of aggregate_all_data after its start.
AgSteps ==
    \/ /\ ag_pc = "profile_fetch"
       /\ \E o \in { "ok", "noid", "raise" } : ProfileFetched(o)
    \/ /\ ag_pc = "profile_store"
       /\ \E g \in GatewayOutcomes(ag_rec) : ProfileStored(g)
    \/ /\ ag_pc = "media_fetch"
       /\ \E o \in { "ok", "raise" } \cup (IF ag_limit > 0 THEN { "lastnoid" } ELSE {}) :
             MediaFetched(o)
    \/ /\ ag_pc = "media_store"
       /\ \E g \in GatewayOutcomes(ag_rec) : MediaStored(g)
    \/ /\ ag_pc = "mi_fetch"
       /\ \E o \in { "data", "nodata", "raise" } : MediaInsightsFetched(o)
    \/ /\ ag_pc = "mi_store"
       /\ \E g \in GatewayOutcomes(ag_rec) : MediaInsightsStored(g)
    \/ /\ ag_pc = "ui_fetch"
       /\ \E o \in { "data", "nodata", "raise" } : UserInsightsFetched(o)
    \/ /\ ag_pc = "ui_profile"
       /\ \E o \in { "ok", "noid", "raise" } : UserProfileFetched(o)
    \/ /\ ag_pc = "ui_store"
       /\ \E g \in GatewayOutcomes(ag_rec) : UserInsightsStored(g)
    \/ /\ ag_pc = "ht_id"
       /\ \E o \in { "found", "notfound", "raise" } : HashtagIdFetched(o)
    \/ /\ ag_pc = "ht_media"
       /\ \E o \in { "ok", "raise" } : HashtagMediaFetched(o)
    \/ /\ ag_pc = "ht_store"
       /\ \E g \in GatewayOutcomes(ag_rec) : HashtagMediaStored(g)

\* One run of aggregate_all_data.
AgNext ==
    \/ /\ ag_pc = "idle"
       /\ \E limit \in 0..MaxMedia, k \in 0..MaxTags : AggStart(limit, Hashtags(k))
    \/ AgSteps

\* A run of aggregate_all_data and its repetition against the same gateway.
AgRerunNext ==
    \/ /\ ag_pc = "idle"
       /\ \E limit \in 0..MaxRerunMedia, k \in 0..MaxRerunTags :
             AggStart(limit, Hashtags(k))
    \/ AgSteps
    \/ Tick
    \/ Rerun

(***************************************************************************)
(* The shaping of records in fetch_and_store_media,                        *)
(* fetch_and_store_media_insights and fetch_and_store_user_insights        *)
(***************************************************************************)
\* A JSON value as response.json() returns it: None, a number, a str, a
\* list or a dict (its items in insertion order).  A str is either plain
\* (field s) or a JSON text written by json.dumps (field text, a sequence of
\* tokens).
JNull == [ t |-> "null", n |-> 0, s |-> "", kv |-> << >>, items |-> << >>, text |-> << >> ]
JNum(n) == [ t |-> "num", n |-> n, s |-> "", kv |-> << >>, items |-> << >>, text |-> << >> ]
JStr(s) == [ t |-> "str", n |-> 0, s |-> s, kv |-> << >>, items |-> << >>, text |-> << >> ]
JText(toks) == [ t |-> "str", n |-> 0, s |-> "", kv |-> << >>, items |-> << >>, text |-> toks ]
JArr(items) == [ t |-> "list", n |-> 0, s |-> "", kv |-> << >>, items |-> items, text |-> << >> ]
JObj(kv) == [ t |-> "dict", n |-> 0, s |-> "", kv |-> kv, items |-> << >>, text |-> << >> ]

\* key in d, and d[key] (None where the key is missing, as d.get(key) gives).
HasKey(d, key) == \E i \in 1..Len(d.kv) : d.kv[i][1] = key
Get(d, key) ==
    IF HasKey(d, key)
    THEN d.kv[CHOOSE i \in 1..Len(d.kv) : d.kv[i][1] = key][2]
    ELSE JNull

\* isinstance(v, dict), and a value the gateway's flat schema can hold.
IsDict(v) == v.t = "dict"
IsNested(v) == v.t \in { "dict", "list" }

\* The tokens of a JSON text: punctuation, and the literals.  A str is
\* written between quotes with its special characters escaped, so whatever
\* it contains it is one string token and never punctuation.
Punct(c) == [ k |-> "punct", s |-> c, n |-> 0 ]
Bare(str) == [ k |-> "punct", s |-> str, n |-> 0 ]
Quote(str) == [ k |-> "string", s |-> str, n |-> 0 ]

RECURSIVE Encode(_), EncodeItems(_), EncodeMembers(_)
\* json.dumps(v), as tokens
Encode(v) ==
    CASE v.t = "null" -> << [ k |-> "null", s |-> "", n |-> 0 ] >>
      [] v.t = "num"  -> << [ k |-> "number", s |-> "", n |-> v.n ] >>
      [] v.t = "str"  -> << Quote(v.s) >>
      [] v.t = "list" -> << Punct("[") >> \o EncodeItems(v.items) \o << Punct("]") >>
      [] v.t = "dict" -> << Punct("{") >> \o EncodeMembers(v.kv) \o << Punct("}") >>
EncodeItems(items) ==
    IF items = << >> THEN << >>
    ELSE Encode(Head(items))
         \o (IF Tail(items) = << >> THEN << >>
             ELSE << Punct(",") >> \o EncodeItems(Tail(items)))
EncodeMembers(kv) ==
    IF kv = << >> THEN << >>
    ELSE << Quote(Head(kv)[1]), Punct(":") >> \o Encode(Head(kv)[2])
         \o (IF Tail(kv) = << >> THEN << >>
             ELSE << Punct(",") >> \o EncodeMembers(Tail(kv)))

json_dumps(v) == JText(Encode(v))

\* A text that is not JSON (json.loads raises on it).
NotJson == [ t |-> "error", n |-> 0, s |-> "", kv |-> << >>, items |-> << >>, text |-> << >> ]

IsPunct(toks, c) == toks # << >> /\ Head(toks).k = "punct" /\ Head(toks).s = c

RECURSIVE ParseValue(_), ParseItems(_, _), ParseMembers(_, _)
\* The JSON value at the head of the tokens, and the tokens after it.
ParseValue(toks) ==
    IF toks = << >> THEN [ v |-> NotJson, rest |-> << >> ]
    ELSE LET tok == Head(toks)
         IN  CASE tok.k = "null"   -> [ v |-> JNull, rest |-> Tail(toks) ]
               [] tok.k = "number" -> [ v |-> JNum(tok.n), rest |-> Tail(toks) ]
               [] tok.k = "string" -> [ v |-> JStr(tok.s), rest |-> Tail(toks) ]
               [] IsPunct(toks, "[") ->
                    IF IsPunct(Tail(toks), "]")
                    THEN [ v |-> JArr(<< >>), rest |-> Tail(Tail(toks)) ]
                    ELSE ParseItems(Tail(toks), << >>)
               [] IsPunct(toks, "{") ->
                    IF IsPunct(Tail(toks), "}")
                    THEN [ v |-> JObj(<< >>), rest |-> Tail(Tail(toks)) ]
                    ELSE ParseMembers(Tail(toks), << >>)
               [] OTHER -> [ v |-> NotJson, rest |-> << >> ]
\* The items of a list after "[" or ",", up to the closing "]".
ParseItems(toks, acc) ==
    LET item == ParseValue(toks)
        items == Append(acc, item.v)
    IN  IF item.v = NotJson THEN item
        ELSE IF IsPunct(item.rest, ",") THEN ParseItems(Tail(item.rest), items)
        ELSE IF IsPunct(item.rest, "]")
        THEN [ v |-> JArr(items), rest |-> Tail(item.rest) ]
        ELSE [ v |-> NotJson, rest |-> << >> ]
\* The members of a dict after "{" or ",", up to the closing "}".
ParseMembers(toks, acc) ==
    IF Len(toks) < 2 \/ Head(toks).k # "string" \/ ~IsPunct(Tail(toks), ":")
    THEN [ v |-> NotJson, rest |-> << >> ]
    ELSE LET member == ParseValue(Tail(Tail(toks)))
             kv == Append(acc, << Head(toks).s, member.v >>)
         IN  IF member.v = NotJson THEN member
             ELSE IF IsPunct(member.rest, ",") THEN ParseMembers(Tail(member.rest), kv)
             ELSE IF IsPunct(member.rest, "}")
             THEN [ v |-> JObj(kv), rest |-> Tail(member.rest) ]
             ELSE [ v |-> NotJson, rest |-> << >> ]

\* json.loads(text)
json_loads(text) ==
    LET parsed == ParseValue(text.text)
    IN  IF parsed.rest = << >> THEN parsed.v ELSE NotJson

\* Bounds: the children of a media item and the metric entries of an
\* insights body.
MaxChildren == 2
MaxEntries == 2

\* The children edge of a media item as the Graph API returns it for
\* fields=...,children{media_url}: {"data": [{"media_url": ..., "id": ...}]},
\* a child of a kind without a URL carrying its id only.  A URL is any str,
\* characters of the JSON syntax included.
ChildUrls == { "https://cdn/1.jpg", "],{\":" }
Child == { JObj(<< << "media_url", JStr(u) >>, << "id", JStr("c1") >> >>) : u \in ChildUrls }
         \cup { JObj(<< << "id", JStr("c2") >> >>) }
Children == { JObj(<< << "data", JArr(cs) >> >>) : cs \in SeqsUpTo(Child, MaxChildren) }

\* A sentinel for a key the dict does not have.
Absent == [ t |-> "absent", n |-> 0, s |-> "", kv |-> << >>, items |-> << >>, text |-> << >> ]

\* An element of the "values" list of a metric entry, and the entries: the
\* name may be missing, "values" may be missing, empty or hold an element.
Breakdown == JObj(<< << "F.18-24", JNum(12) >>, << "M.18-24", JNum(9) >> >>)
ValueElements ==
    { JObj(<< >>),
      JObj(<< << "end_time", JStr("2032-06-15T07:00:00+0000") >> >>),
      JObj(<< << "value", JNum(7) >> >>),
      JObj(<< << "value", JNull >> >>),
      JObj(<< << "value", Breakdown >> >>) }
MetricNames == { "reach", "audience_gender_age" }
NameMembers == { << >> } \cup { << << "name", JStr(m) >> >> : m \in MetricNames }
ValuesMembers ==
    { << >>, << << "values", JArr(<< >>) >> >> }
    \cup { << << "values", JArr(<< e >>) >> >> : e \in ValueElements }
Entries == { JObj(nm \o vm) : nm \in NameMembers, vm \in ValuesMembers }

\* The insights bodies: {"data": [entries]}, or a body without "data".
InsightsBodies ==
    { JObj(<< << "data", JArr(es) >> >>) : es \in SeqsUpTo(Entries, MaxEntries) }
    \cup { JObj(<< >>) }

\* The key under which metric.get("name") files a value: the name, or None.
NameKey(metric) == IF HasKey(metric, "name") THEN Get(metric, "name").s ELSE None

\* formatted_insights[key] = value
SetField(fields, key, value) ==
    [ k \in DOMAIN fields \cup {key} |-> IF k = key THEN value ELSE fields[k] ]

\* metric.get("values", [{}])[0] raises IndexError on an empty list.
RaisesIndexError(metric) ==
    HasKey(metric, "values") /\ Get(metric, "values").items = << >>
FirstValues(metric) ==
    IF HasKey(metric, "values") THEN Get(metric, "values").items[1] ELSE JObj(<< >>)

\* The loop body of fetch_and_store_media_insights:
\*   metric_name = metric.get("name")
\*   metric_value = metric.get("values", [{}])[0].get("value")
\*   if metric_name and metric_value is not None: formatted[metric_name] = metric_value
MediaInsightsField(fields, metric) ==
    LET value == Get(FirstValues(metric), "value")
    IN  IF Truthy(NameKey(metric)) /\ value # JNull
        THEN SetField(fields, NameKey(metric), value)
        ELSE fields

\* The loop body of fetch_and_store_user_insights:
\*   metric_name = metric.get("name")
\*   if "values" in metric:
\*       values = metric.get("values", [{}])[0]
\*       if "value" in values: formatted[metric_name] = values["value"]
\*       elif isinstance(values, dict): formatted[metric_name] = json.dumps(values)
UserInsightsField(fields, metric) ==
    IF ~HasKey(metric, "values") THEN fields
    ELSE LET values == FirstValues(metric)
         IN  IF HasKey(values, "value")
             THEN SetField(fields, NameKey(metric), Get(values, "value"))
             ELSE IF IsDict(values)
             THEN SetField(fields, NameKey(metric), json_dumps(values))
             ELSE fields

\* The body of the loop over the metrics, in the operation named.
InsightsField(op, fields, metric) ==
    IF op = "media_insights" THEN MediaInsightsField(fields, metric)
    ELSE UserInsightsField(fields, metric)

RECURSIVE Flatten(_, _, _)
\* for metric in insights_data["data"]: ...
Flatten(op, fields, data) ==
    IF data = << >> THEN fields
    ELSE Flatten(op, InsightsField(op, fields, Head(data)), Tail(data))

NoFields == [ k \in {} |-> JNull ]
NoShaped == [ id |-> NoId, data_type |-> "none", fetched_at |-> 0,
              children |-> Absent, fields |-> NoFields ]
NoInput == [ id |-> NoId, children |-> Absent, body |-> JObj(<< >>) ]

\* A shaped record: its id, the two injected fields, the children of a media
\* item and the fields of a flattened insights record.
Shaped(id, dataType, children, fields) ==
    [ id |-> id, data_type |-> dataType, fetched_at |-> ag_now,
      children |-> children, fields |-> fields ]

ShInit ==
    /\ sh_pc = "idle"
    /\ sh_op = None
    /\ sh_in = NoInput
    /\ sh_rec = NoShaped
    /\ sh_out = "none"

\* fetch_and_store_media, one round of its loop: the item gets fetched_at and
\* data_type, a dict under "children" is replaced by its JSON text, and the
\* item is handed to the gateway.
ShapeMedia(id, children) ==
    /\ sh_pc = "idle"
    /\ sh_op' = "fetch_and_store_media"
    /\ sh_in' = [ id |-> id, children |-> children, body |-> JObj(<< >>) ]
    /\ sh_rec' = Shaped(id, "media",
                        IF children # Absent /\ IsDict(children)
                        THEN json_dumps(children) ELSE children,
                        NoFields)
    /\ sh_out' = "stored"
    /\ sh_pc' = "done"
    /\ UNCHANGED sh_frame

\* fetch_and_store_media_insights(media_id) from the answer of
\* get_media_insights on: a body with a "data" list is flattened into one
\* record, which is handed to the gateway; another body is returned as it
\* is; an exception in the loop leaves the function.
ShapeMediaInsights(id, body) ==
    /\ sh_pc = "idle"
    /\ sh_op' = "fetch_and_store_media_insights"
    /\ sh_in' = [ id |-> id, children |-> Absent, body |-> body ]
    /\ IF HasKey(body, "data") /\ Get(body, "data").t = "list"
       THEN LET data == Get(body, "data").items
            IN  IF \E i \in 1..Len(data) : RaisesIndexError(data[i])
                THEN sh_rec' = NoShaped /\ sh_out' = "raised"
                ELSE /\ sh_rec' = Shaped(InsightsId(id), "media_insights", Absent,
                                         Flatten("media_insights", NoFields, data))
                     /\ sh_out' = "stored"
       ELSE sh_rec' = NoShaped /\ sh_out' = "returned"
    /\ sh_pc' = "done"
    /\ UNCHANGED sh_frame

\* fetch_and_store_user_insights from the answers of get_user_insights and
\* get_user_profile on, the profile carrying the user id.
ShapeUserInsights(id, body) ==
    /\ sh_pc = "idle"
    /\ sh_op' = "fetch_and_store_user_insights"
    /\ sh_in' = [ id |-> id, children |-> Absent, body |-> body ]
    /\ IF HasKey(body, "data") /\ Get(body, "data").t = "list"
       THEN LET data == Get(body, "data").items
            IN  IF \E i \in 1..Len(data) : RaisesIndexError(data[i])
                THEN sh_rec' = NoShaped /\ sh_out' = "raised"
                ELSE /\ sh_rec' = Shaped(InsightsId(id), "user_insights", Absent,
                                         Flatten("user_insights", NoFields, data))
                     /\ sh_out' = "stored"
       ELSE sh_rec' = NoShaped /\ sh_out' = "returned"
    /\ sh_pc' = "done"
    /\ UNCHANGED sh_frame

\* The operation has returned or raised.
ShapeReturn ==
    /\ sh_pc = "done"
    /\ sh_pc' = "idle"
    /\ sh_op' = None
    /\ sh_in' = NoInput
    /\ sh_rec' = NoShaped
    /\ sh_out' = "none"
    /\ UNCHANGED sh_frame

ShNext ==
    \/ /\ sh_pc = "idle"
       /\ \E children \in Children \cup {Absent} : ShapeMedia(MediaId(1), children)
    \/ /\ sh_pc = "idle"
       /\ \E body \in InsightsBodies : ShapeMediaInsights(MediaId(1), body)
    \/ /\ sh_pc = "idle"
       /\ \E body \in InsightsBodies : ShapeUserInsights(UserId, body)
    \/ ShapeReturn

\* Two runs of aggregate_all_data on the singleton aggregator, for two
\* requests that overlap.
AgOverlapNext ==
    \/ /\ ag_pc = "idle"
       /\ \E req \in OverlapRequests : AggStart(req.media_limit, req.hashtags)
    \/ AgSteps
    \/ Switch

Init == GiInit /\ RqInit /\ PgInit /\ AgInit /\ ShInit

SpecInsights == Init /\ [][GiNext]_vars

SpecRetry == Init /\ [][RqNext]_vars

SpecPaged == Init /\ [][PgNext]_vars

\* Every page request in flight is answered, and the caller takes the result
\* of a call that has ended.
PgFairness ==
    /\ WF_vars(\E kind \in {"page", "nodata", "raise"} : FirstPageEnds(kind))
    /\ WF_vars(\E kind \in {"page", "error_body", "exception"} : FollowPageEnds(kind))
    /\ WF_vars(PagedReturn)

SpecPagedLive == SpecPaged /\ PgFairness

Spec == Init /\ [][AgNext]_vars

SpecRerun == Init /\ [][AgRerunNext]_vars

SpecShape == Init /\ [][ShNext]_vars

SpecOverlap == Init /\ [][AgOverlapNext]_vars

----------------------------------------------------------------------------
(***************************************************************************)
(* Claims about get_insights                                               *)
(***************************************************************************)
\* The metrics the documentation marks "Requires timeframe parameter".
RequiresTimeframe(m) ==
    m \in { "audience_demographics", "engaged_audience_demographics",
            "follower_demographics" }

C2_ExactlyMinItems ==
    (pg_pc = "done" /\ ~pg_failed /\ ~pg_up.endless)
        => /\ pg_out.kind = "returned"
           /\ Len(pg_out.items) = Min(pg_limit, TotalAvailable(pg_up))
           /\ \A i \in 1..Len(pg_out.items) : pg_out.items[i] = i

\* C2 witness: a first page shorter than the limit, a follow-up page that
\* overshoots it, and the result cut to the limit.
C2_Witness ==
    /\ pg_pc = "done"
    /\ ~pg_failed
    /\ ~pg_up.endless
    /\ pg_limit = 2
    /\ pg_up.sizes = <<1, 2>>
    /\ pg_out.items = <<1, 2>>
    /\ Len(pg_list) = 3

\* C16 as stated: every outgoing request of the Graph API client carries
\* the access token in its query parameters, every retry attempt and every
\* follow-up page request included, and the token is never empty.
C16_EveryRequestCarriesToken ==
    \A r \in pg_sent : r.access_token = ConfiguredToken /\ Truthy(r.access_token)

\* C16 amended: every request sent through _make_request, the first
\* attempt and every retry, carries the configured access token, which is
\* never empty; a follow-up page request goes to the paging.next URL as the
\* upstream gave it, with nothing added by the client, so it carries the
\* token exactly when that URL embeds it.
C16_TokenOnRetryingPathOnly ==
    /\ Truthy(ConfiguredToken)
    /\ \A r \in pg_sent :
          /\ r.via = "_make_request" => r.access_token = ConfiguredToken
          /\ r.via = "requests.get" =>
                r.access_token = (IF pg_up.tokenInNext THEN ConfiguredToken ELSE None)

\* C16 witness: the first page was sent three times, then a follow-up page
\* was requested from a URL that embeds no token.
C16_Witness ==
    /\ FirstPageAttempts = 3
    /\ ~pg_up.tokenInNext
    /\ \E r \in pg_sent : r.via = "requests.get" /\ r.access_token = None

\* A follow-up page request of the call has failed.
FollowUpFailed == pg_failed /\ pg_followed # {}

\* C19: in get_user_media and get_hashtag_media only the first page goes
\* through the retrying request path; a follow-up page is requested once
\* and, when its request fails, the accessor stops paging at once and
\* returns the items it has accumulated, cut to the limit, without raising.
C19_FollowUpsNotRetried ==
    /\ \A r \in pg_sent :
          /\ r.via = "_make_request" => r.page = 1 /\ r.attempt \in 1..3
          /\ r.via = "requests.get" => r.page > 1 /\ r.attempt = 1
    /\ ~pg_up.endless => ~pg_repeat
    /\ FollowUpFailed =>
          /\ pg_pc = "done"
          /\ pg_out.kind = "returned"
          /\ pg_out.items = Take(pg_list, pg_limit)
          /\ \A i \in 1..Len(pg_out.items) : pg_out.items[i] = i
          /\ Cardinality({ r \in pg_sent : r.via = "requests.get" })
                = Cardinality(pg_followed)

\* C19 witness: the first page came at the second attempt, the second page
\* came too, and the request for the third page has failed: the accessor
\* has returned the items of the first two pages.
C19_Witness ==
    /\ FollowUpFailed
    /\ FirstPageAttempts = 2
    /\ pg_followed = { 2, 3 }
    /\ pg_limit = 3
    /\ pg_out = [ kind |-> "returned", items |-> << 1, 2 >> ]

(***************************************************************************)
(* Claims about _make_request                                              *)
(***************************************************************************)
RECURSIVE NonDecreasing(_)
NonDecreasing(seq) ==
    \/ Len(seq) <= 1
    \/ /\ seq[1] <= seq[2]
       /\ NonDecreasing(Tail(seq))

\* C3: one invocation of _make_request sends at most 3 upstream attempts, and
\* the delays between consecutive attempts are non-decreasing, never above
\* the cap of 10 and never below the base of 2.
C3_BoundedRetry ==
    /\ Len(rq_sent) <= 3
    /\ Len(rq_log) <= 3
    /\ NonDecreasing(rq_delays)
    /\ \A i \in 1..Len(rq_delays) : rq_delays[i] >= 2 /\ rq_delays[i] <= 10
    /\ rq_pc \in {"attempting", "done"} => Len(rq_delays) = Len(rq_sent) - 1

\* C3 witness: a call has used up its attempts, all of them failed, and two
\* delays were slept in between.
C3_Witness ==
    /\ rq_pc = "done"
    /\ rq_out.kind = "RetryError"
    /\ Len(rq_sent) = 3
    /\ Len(rq_delays) = 2
    /\ \A i \in 1..3 : rq_log[i].kind # "ok"

\* C13: one insights request is one invocation of get_insights and, when
\* validation passes, exactly one upstream GET: a paging cursor in the
\* response is not followed and the GET is not repeated after a failure.
C13_OneGetPerRequest ==
    /\ gi_pc # "idle" => gi_calls = 1
    /\ gi_pc = "awaiting" => gi_gets = 1
    /\ gi_pc = "done" => gi_gets = (IF Rejects(gi_req) THEN 0 ELSE 1)

\* C13 witness: a request has ended after an upstream failure, with one GET
\* issued.
C13_Witness ==
    /\ gi_pc = "done"
    /\ gi_up.kind = "request_error"
    /\ gi_calls = 1
    /\ gi_gets = 1

\* The three classes of failure of the upstream GET.
FailureClass(up) ==
    CASE up.kind = "status_error"  -> "upstream"
      [] up.kind = "request_error" -> "network"
      [] up.kind = "unparsable"    -> "other"
      [] OTHER                     -> "none"

\* C14: get_insights maps an upstream 4xx/5xx response to the upstream
\* status and body, a network failure to 503 and any other exception to 500,
\* and the caller can always tell the three apart: no failure of another
\* class, whatever its status and text, gives the outcome the caller got.
C14_FailuresDistinguishable ==
    (gi_pc = "done" /\ FailureClass(gi_up) # "none") =>
        /\ gi_out.kind = "HTTPException"
        /\ gi_up.kind = "status_error" =>
              /\ gi_out.status = gi_up.status
              /\ gi_out.detail = << "Instagram API error: " >> \o gi_up.text
        /\ gi_up.kind = "request_error" => gi_out.status = 503
        /\ gi_up.kind = "unparsable" => gi_out.status = 500
        /\ \A u \in UpstreamOutcomes :
              (FailureClass(u) \notin { "none", FailureClass(gi_up) })
                  => MapOutcome(u) # gi_out

\* C14 witness: the upstream has answered 503 with a body that reads like
\* the detail of a network failure.
C14_Witness ==
    /\ gi_pc = "done"
    /\ gi_up.kind = "status_error"
    /\ gi_up.status = 503
    /\ gi_up.text = << "Error connecting to Instagram API: " >>
    /\ gi_out.status = 503

\* An attempt ended in an upstream rejection (HTTPError with a 4xx status),
\* or in a transient failure (a connection error or a 5xx status).
IsRejection(o) == o.kind = "HTTPError" /\ o.status \in 400..499
IsTransient(o) ==
    \/ o.kind = "RequestException"
    \/ o.kind = "HTTPError" /\ o.status \in 500..599

\* C11: an upstream rejection with a 4xx status is never retried: the
\* request that received it is attempted exactly once, and the rejection
\* reaches the caller as it is, with the upstream status.
C11_RejectionNotRetried ==
    \A i \in 1..Len(rq_log) :
        IsRejection(rq_log[i]) =>
            /\ i = 1
            /\ Len(rq_sent) = 1
            /\ rq_pc = "done"
            /\ rq_out.kind = "HTTPError"
            /\ rq_out.status = rq_log[i].status

\* C12: a transient failure is retried up to the budget of 3 attempts and,
\* when every attempt has failed, reaches the caller of the endpoint as the
\* ServiceUnavailable condition (503).
C12_TransientBecomesUnavailable ==
    (rq_pc = "done" /\ \A i \in 1..Len(rq_log) : IsTransient(rq_log[i])) =>
        /\ Len(rq_sent) = StopAfterAttempt
        /\ EndpointStatus(rq_out) = HTTP_503_SERVICE_UNAVAILABLE

\* Every attempt of the call has failed and the attempts are used up.
AllAttemptsFailed ==
    /\ rq_pc = "done"
    /\ Len(rq_log) = StopAfterAttempt
    /\ \A i \in 1..Len(rq_log) : rq_log[i].kind # "ok"

\* C18 as stated: when all 3 attempts of _make_request have failed, the
\* caller gets the failure of the final attempt; the call returns no value.
C18_FinalFailureSurfaced ==
    AllAttemptsFailed =>
        /\ rq_out.kind = rq_log[Len(rq_log)].kind
        /\ rq_out.status = rq_log[Len(rq_log)].status

\* C18 amended: when all 3 attempts of _make_request have failed, the call
\* fails to its caller with RetryError, which wraps the final attempt and
\* has that attempt's exception as its cause; the call returns a value only
\* when its last attempt returned one.
C18_RetryErrorWrapsFinalFailure ==
    /\ AllAttemptsFailed =>
          /\ rq_out.kind = "RetryError"
          /\ rq_out.cause = rq_log[Len(rq_log)].kind
          /\ rq_out.status = rq_log[Len(rq_log)].status
    /\ (rq_pc = "done" /\ rq_out.kind = "returned") =>
          rq_log[Len(rq_log)].kind = "ok"

\* C18 witness: three attempts have failed in three different ways, the
\* last one with an invalid JSON body.
C18_Witness ==
    /\ AllAttemptsFailed
    /\ rq_log[1].kind = "RequestException"
    /\ rq_log[2].kind = "HTTPError"
    /\ rq_log[3].kind = "ValueError"
    /\ rq_out.kind = "RetryError"
    /\ rq_out.cause = "ValueError"

(***************************************************************************)
(* Claims about aggregate_all_data                                         *)
(***************************************************************************)
\* The k-th call of the run has been answered, and the answer was a failure:
\* an exception of the upstream, a refusal of the gateway, a hashtag search
\* that found nothing, or a profile without the user id where
\* fetch_and_store_user_insights needs one.
CallFailed(k) ==
    /\ k < ag_pos
    /\ k <= Len(ag_calls)
    /\ \/ ag_tape[k] \in { "raise", "fail", "notfound" }
       \/ ag_calls[k] = "ui_profile" /\ ag_tape[k] = "noid"

\* Some call of the named step of the run has failed.
StepFailed(step) ==
    \E k \in 1..Len(ag_calls) : StepOf(ag_calls[k]) = step /\ CallFailed(k)

\* The positions of the run's calls of one kind, and the j-th of a set of
\* positions.
Positions(call) == { k \in 1..Len(ag_calls) : ag_calls[k] = call }
Nth(S, j) == CHOOSE k \in S : Cardinality({ m \in S : m < k }) = j - 1

\* The calls made for the j-th of the loop rounds that each begin with `call`.
Round(call, j) ==
    LET P == Positions(call)
        last == IF j < Cardinality(P) THEN Nth(P, j + 1) - 1 ELSE Len(ag_calls)
    IN  { k \in Nth(P, j)..last : StepOf(ag_calls[k]) = StepOf(call) }

RoundFailed(call, j) == \E k \in Round(call, j) : CallFailed(k)

Ids(rows) == [ i \in 1..Len(rows) |-> rows[i].id ]
NoDuplicateIds(rows) ==
    \A i, j \in 1..Len(rows) : rows[i].id = rows[j].id => i = j
Unstamped(rows) == [ i \in 1..Len(rows) |-> [ rows[i] EXCEPT !.fetched_at = 0 ] ]

\* aggregate_all_data has run a second time, to its end.
SecondRunEnded == ag_run = 2 /\ ag_pc \in { "done", "failed" }

\* C4 as stated: running aggregate_all_data twice with identical inputs and
\* identical upstream responses leaves the table as running it once did: the
\* same row ids, no duplicate rows, and the same row contents.
C4_SameRowsAfterRerun ==
    SecondRunEnded => /\ NoDuplicateIds(db)
                      /\ db = ag_snap

\* C4 amended: running aggregate_all_data twice with identical inputs and
\* identical upstream responses leaves the same row ids as running it once,
\* no duplicate rows, and the same row contents apart from each row's
\* fetched_at, which is the time of the run that wrote the row last.
C4_SameRowsApartFromStamp ==
    /\ NoDuplicateIds(db)
    /\ SecondRunEnded => /\ Ids(db) = Ids(ag_snap)
                         /\ Unstamped(db) = Unstamped(ag_snap)

\* C4 witness: a second run with media and a hashtag has ended after the
\* clock moved on, over a table the first run had filled, and the rows carry
\* the second run's time.
C4_Witness ==
    /\ SecondRunEnded
    /\ ag_pc = "done"
    /\ ag_limit = 1
    /\ Len(ag_hashtags) = 1
    /\ ag_now = 1
    /\ Len(ag_snap) = 4
    /\ Len(db) = 4
    /\ db # ag_snap

C6_SummaryKeys ==
    (ag_result.kind = "returned" /\ ag_hashtags # << >>) =>
        /\ DOMAIN ag_result.summary =
              { "profile", "media", "media_insights", "user_insights", "hashtags" }
        /\ LET ht == ag_result.summary["hashtags"]
           IN  /\ ht.count = Len(ag_hashtags)
               /\ Len(ht.items) = Len(ag_hashtags)
               /\ \A j \in 1..Len(ag_hashtags) : ht.items[j].hashtag = ag_hashtags[j]

\* C6 witness: a summary has been returned for two hashtags, the first of
\* which succeeded and the second failed.
C6_Witness ==
    /\ ag_result.kind = "returned"
    /\ Len(ag_hashtags) = 2
    /\ ag_result.summary["hashtags"].items[1].status = "success"
    /\ ag_result.summary["hashtags"].items[2].status = "error"

\* C7: if the profile fetch or the profile store fails, the run fails as a
\* whole: the caller gets an exception and no summary, and no call of the
\* media, media insights, user insights or hashtag steps is issued.
C7_ProfileFailureAborts ==
    StepFailed("profile") =>
        /\ ag_pc = "failed"
        /\ ag_result.kind = "raised"
        /\ ag_result.summary = << >>
        /\ \A k \in 1..Len(ag_calls) : StepOf(ag_calls[k]) = "profile"

\* C7 witness: the gateway has refused the profile of a run that was asked
\* for media and hashtags.
C7_Witness ==
    /\ StepFailed("profile")
    /\ ag_pc = "failed"
    /\ ag_calls = << "profile_fetch", "profile_store" >>
    /\ ag_limit > 0
    /\ ag_hashtags # << >>

\* C8: if the media fetch or a media store fails, the failure reaches the
\* caller: no summary is returned, and no call of the media insights, user
\* insights or hashtag steps is made.
C8_MediaFailurePropagates ==
    StepFailed("media") =>
        /\ ag_pc = "failed"
        /\ ag_result = [ kind |-> "raised", summary |-> << >>,
                         error |-> ag_result.error ]
        /\ \A k \in 1..Len(ag_calls) : StepOf(ag_calls[k]) \in { "profile", "media" }

\* C8 witness: the store of the second media item has failed after the first
\* item was stored, in a run that was asked for hashtags.
C8_Witness ==
    /\ StepFailed("media")
    /\ ag_pc = "failed"
    /\ Len(ag_stored) = 1
    /\ Len(ag_media) = 2
    /\ ag_hashtags # << >>

\* C9: if the user insights step fails, the failure is caught and recorded
\* as user_insights = {status: "error", error: message}; the run is not
\* aborted but goes on with the hashtags, every supplied hashtag is asked
\* for, and the summary the run returns carries the recorded failure.
C9_UserInsightsFailureRecorded ==
    StepFailed("user_insights") =>
        /\ ag_pc \in { "ht_id", "ht_media", "ht_store", "done" }
        /\ ag_result.kind # "raised"
        /\ "user_insights" \in DOMAIN ag_summary
        /\ ag_summary["user_insights"].status = "error"
        /\ ag_summary["user_insights"].error \in { "upstream", "no_user_id", "gateway" }
        /\ ag_pc = "done" =>
              /\ ag_result.kind = "returned"
              /\ ag_result.summary["user_insights"] = ag_summary["user_insights"]
              /\ Cardinality(Positions("ht_id")) = Len(ag_hashtags)

\* C9 witness: the store of the user insights has failed, and the run has
\* gone on to process two hashtags and returned its summary.
C9_Witness ==
    /\ StepFailed("user_insights")
    /\ ag_pc = "done"
    /\ ag_summary["user_insights"].error = "gateway"
    /\ Len(ag_hashtags) = 2
    /\ ag_summary["hashtags"].count = 2
    /\ ag_summary["hashtags"].items[2].status = "success"

\* C10: a failure while one hashtag is processed is recorded in the item of
\* that hashtag only; every other supplied hashtag, before or after it, is
\* still asked for, has its media stored, and gets its own item with its
\* own status.
C10_HashtagFailureIsolated ==
    (ag_pc = "done" /\ ag_hashtags # << >>) =>
        LET items == ag_summary["hashtags"].items
        IN  /\ Cardinality(Positions("ht_id")) = Len(ag_hashtags)
            /\ Len(items) = Len(ag_hashtags)
            /\ \A j \in 1..Len(ag_hashtags) :
                  /\ items[j].hashtag = ag_hashtags[j]
                  /\ items[j].status =
                        IF RoundFailed("ht_id", j) THEN "error" ELSE "success"
                  /\ ~RoundFailed("ht_id", j) =>
                        /\ items[j].count = ag_limit
                        /\ \A k \in 1..ag_limit :
                              \E r \in 1..Len(db) :
                                  db[r].id = TagMediaId(ag_hashtags[j], k)

\* C10 witness: of two hashtags the first has failed at the gateway and the
\* second has had its two media stored.
C10_Witness ==
    /\ ag_pc = "done"
    /\ Len(ag_hashtags) = 2
    /\ ag_limit = 2
    /\ ag_summary["hashtags"].items[1].status = "error"
    /\ ag_summary["hashtags"].items[1].error = "gateway"
    /\ ag_summary["hashtags"].items[2].status = "success"
    /\ ag_summary["hashtags"].items[2].count = 2

\* The rows of the table that fetch_and_store_hashtag_media wrote for a hashtag.
RowsOfTag(tag) ==
    { r \in 1..Len(db) : db[r].source = << "hashtag" >> \o tag \o HashtagId(tag) }

\* C15: get_hashtag_id fails with "not found" whenever the hashtag search
\* returns no match; fetch_and_store_hashtag_media then issues no request for
\* the hashtag's media and persists nothing for that hashtag.
C15_HashtagNotFound ==
    \A k \in 1..Len(ag_calls) :
        (ag_calls[k] = "ht_id" /\ k < ag_pos /\ ag_tape[k] = "notfound") =>
            LET j == Cardinality({ m \in Positions("ht_id") : m <= k })
            IN  /\ k < Len(ag_calls) => ag_calls[k + 1] = "ht_id"
                /\ Len(ag_htres) >= j
                /\ ag_htres[j] = TagError(ag_hashtags[j], "not_found")
                /\ RowsOfTag(ag_hashtags[j]) = {}

\* C15 witness: the search for the first of two hashtags has found nothing,
\* and the media of the second have been fetched and stored.
C15_Witness ==
    /\ ag_pc = "done"
    /\ Len(ag_hashtags) = 2
    /\ ag_limit = 2
    /\ ag_htres[1].status = "error"
    /\ ag_htres[1].error = "not_found"
    /\ ag_htres[2].status = "success"
    /\ RowsOfTag(ag_hashtags[1]) = {}
    /\ RowsOfTag(ag_hashtags[2]) # {}

\* The data_type that belongs to the operation whose upsert is in flight.
TypeOfStore(pc) ==
    CASE pc = "profile_store" -> "profile"
      [] pc = "media_store"   -> "media"
      [] pc = "mi_store"      -> "media_insights"
      [] pc = "ui_store"      -> "user_insights"
      [] pc = "ht_store"      -> "hashtag_media"

\* C17: every record a fetch_and_store operation passes to the gateway's
\* upsert carries fetched_at, and a data_type that is one of profile, media,
\* media_insights, user_insights, hashtag_media and is the one of the
\* operation that passes it; so does every row the table holds.
C17_RecordsAreStamped ==
    /\ ag_pc \in GatewayCalls =>
          /\ ag_rec.fetched_at # NoneInt
          /\ ag_rec.fetched_at = ag_now
          /\ ag_rec.data_type \in DataType
          /\ ag_rec.data_type = TypeOfStore(ag_pc)
    /\ \A r \in 1..Len(db) :
          /\ db[r].fetched_at # NoneInt
          /\ db[r].data_type \in DataType

\* C17 witness: fetch_and_store_hashtag_media passes a hashtag's media item
\* to the gateway while the table holds rows of the four other types.
C17_Witness ==
    /\ ag_pc = "ht_store"
    /\ ag_rec.data_type = "hashtag_media"
    /\ { db[r].data_type : r \in 1..Len(db) } =
          { "profile", "media", "media_insights", "user_insights" }

\* The place of a step in the order of aggregate_all_data.
Rank(step) ==
    CASE step = "profile"        -> 1
      [] step = "media"          -> 2
      [] step = "media_insights" -> 3
      [] step = "user_insights"  -> 4
      [] step = "hashtags"       -> 5

\* The calls of the run that have been started and not yet answered.
InFlight == Len(ag_calls) - (ag_pos - 1)

\* C20: within one run of aggregate_all_data at most one upstream or
\* gateway call is in flight at any time, and the calls come in the order
\* profile, media, media insights (one media item at a time, in the order
\* of the media list), user insights, hashtags (in the supplied order): a
\* call of a later step starts only after every call of the earlier steps
\* has been answered.
C20_OneCallAtATime ==
    ag_run = 1 =>
        /\ InFlight = (IF ag_pc \in UpstreamCalls \cup GatewayCalls THEN 1 ELSE 0)
        /\ InFlight = 1 => ag_calls[Len(ag_calls)] = ag_pc
        /\ \A k \in 1..(Len(ag_calls) - 1) :
              Rank(StepOf(ag_calls[k])) <= Rank(StepOf(ag_calls[k + 1]))
        /\ ag_pc \in { "mi_fetch", "mi_store" } =>
              ag_i = Cardinality(Positions("mi_fetch"))
        /\ ag_pc \in { "ht_id", "ht_media", "ht_store" } =>
              ag_h = Cardinality(Positions("ht_id"))

\* C20 witness: the second hashtag's media are being stored after calls of
\* all five steps, two media insights among them.
C20_Witness ==
    /\ ag_pc = "ht_store"
    /\ ag_h = 2
    /\ InFlight = 1
    /\ Cardinality(Positions("mi_fetch")) = 2
    /\ Cardinality(Positions("ui_store")) = 1
    /\ Len(ag_calls) = ag_pos

(***************************************************************************)
(* Claims about the time range of get_insights                             *)
(***************************************************************************)
\* The request in progress passed validation and left out since and until.
DefaultsApplied ==
    /\ gi_pc # "idle"
    /\ ~Rejects(gi_req)
    /\ gi_req.since = NoneInt
    /\ gi_req.until = NoneInt

\* now + 1 day - 365 days, on the wall clock.
YearBeforeTomorrow(now) == now - 364 * SecondsPerDay

\* C24 as stated: when the caller omits both since and until, get_insights
\* sends since = (now + 1 day - 365 days) and until = now as integer Unix
\* timestamps computed at call time, so that since < until and
\* until - since is at least 364 days.
C24_DefaultRangeSpans364Days ==
    DefaultsApplied =>
        /\ gi_params.since = timestamp(YearBeforeTomorrow(gi_now))
        /\ gi_params.until = timestamp(gi_later)
        /\ gi_params.since < gi_params.until
        /\ gi_params.until - gi_params.since >= 364 * SecondsPerDay

\* C24 amended: when the caller omits both since and until, get_insights
\* sends since = (now + 1 day - 365 days), taken on the server's wall clock,
\* and until = now as integer Unix timestamps computed at call time, so
\* that since < until; until - since is 364 days plus the time between the
\* two clock readings when the server's offset from UTC is the same at both
\* instants, and differs from that by the daylight-saving shift otherwise,
\* so it is never more than that shift short of 364 days.
C24_DefaultRangeOnWallClock ==
    DefaultsApplied =>
        LET span == gi_params.until - gi_params.since
            then == YearBeforeTomorrow(gi_now)
        IN  /\ gi_params.since = timestamp(then)
            /\ gi_params.until = timestamp(gi_later)
            /\ gi_params.since < gi_params.until
            /\ span = 364 * SecondsPerDay + (gi_later - gi_now)
                        + (utcoffset(then) - utcoffset(gi_later))
            /\ utcoffset(then) = utcoffset(gi_later) => span >= 364 * SecondsPerDay
            /\ span >= 364 * SecondsPerDay - (ServerZone.dst - ServerZone.std)

\* C24 witness: the defaults were computed on 2032-10-28, in daylight-saving
\* time, 364 days after a day in standard time: the range sent is an hour
\* short of 364 days.
C24_Witness ==
    /\ DefaultsApplied
    /\ gi_pc = "awaiting"
    /\ gi_now = 1982577600
    /\ gi_later = gi_now
    /\ gi_params.until - gi_params.since = 364 * SecondsPerDay - 3600

\* C30: get_insights applies the default time range only when the caller
\* omits the value: every since or until value the caller supplies, 0
\* included, is sent upstream exactly as given and is never replaced by the
\* default.
C30_SuppliedRangeSentAsGiven ==
    (gi_pc # "idle" /\ ~Rejects(gi_req)) =>
        /\ gi_req.since # NoneInt => gi_params.since = gi_req.since
        /\ gi_req.until # NoneInt => gi_params.until = gi_req.until

(***************************************************************************)
(* Claims about the end of paging                                          *)
(***************************************************************************)
\* C26: get_user_media and get_hashtag_media terminate for every upstream
\* behaviour in which each page request returns: a call whose page requests
\* are all answered ends, also when follow-up pages carry a next cursor but
\* no data or empty data.
C26_PagingTerminates == (pg_pc \in { "first", "paging" }) ~> (pg_pc = "done")

(***************************************************************************)
(* Claims about the shaping of records                                     *)
(***************************************************************************)
\* The metric entries of the insights body that was flattened.
ShapedData == Get(sh_in.body, "data").items

\* An insights operation has flattened a body and handed the record over.
InsightsStored(op) == sh_pc = "done" /\ sh_op = op /\ sh_out = "stored"

\* C22: when fetch_and_store_user_insights flattens an insights payload,
\* every metric whose value is a nested structure (a demographic breakdown,
\* say) is in the persisted record as a serialized string, never as a nested
\* structure.
C22_NestedValuesSerialized ==
    InsightsStored("fetch_and_store_user_insights") =>
        /\ \A k \in DOMAIN sh_rec.fields : ~IsNested(sh_rec.fields[k])
        /\ \A i \in 1..Len(ShapedData) :
              LET metric == ShapedData[i]
              IN  (HasKey(metric, "name") /\ IsNested(Get(FirstValues(metric), "value")))
                      => /\ NameKey(metric) \in DOMAIN sh_rec.fields
                         /\ sh_rec.fields[NameKey(metric)].t = "str"

\* The entries that carry a name and a first value.
Valued(data) ==
    { i \in 1..Len(data) : /\ HasKey(data[i], "name")
                           /\ Get(FirstValues(data[i]), "value") # JNull }
\* One field per metric name, holding the first value of the metric (of its
\* last entry, where a name comes twice).
FieldPerMetric(data) ==
    [ m \in { NameKey(data[i]) : i \in Valued(data) } |->
        LET last == CHOOSE i \in Valued(data) :
                        /\ NameKey(data[i]) = m
                        /\ \A j \in Valued(data) : NameKey(data[j]) = m => j <= i
        IN  Get(FirstValues(data[last]), "value") ]

\* C23: from an insights payload that is a list of {name, values: [{value}]}
\* entries, fetch_and_store_media_insights(media_id) persists one record
\* whose id is media_id followed by "_insights" and which has one field per
\* metric name holding that metric's first value, metrics with no name or no
\* value being left out; fetch_and_store_user_insights does the same with
\* the user id of the profile.
C23_OneFieldPerMetric ==
    \A op \in { "fetch_and_store_media_insights", "fetch_and_store_user_insights" } :
        InsightsStored(op) =>
            /\ sh_rec.id = InsightsId(sh_in.id)
            /\ sh_rec.fields = FieldPerMetric(ShapedData)

InsightsUpserted(j) ==
    \E k \in Round("mi_fetch", j) :
        ag_calls[k] = "mi_store" /\ k < ag_pos /\ ag_tape[k] = "ok"

\* C27: whenever the summary of a run marks a media-insights item, or
\* user_insights, with status "success", an insights record for that media
\* item (for the user) was upserted into the gateway during the run.
C27_SuccessMeansStored ==
    /\ \A j \in 1..Len(ag_mi) :
          ag_mi[j].status = "success" =>
              /\ InsightsUpserted(j)
              /\ \E r \in 1..Len(db) : db[r].id = InsightsId(ag_mi[j].media_id)
    /\ ("user_insights" \in DOMAIN ag_summary
            /\ ag_summary["user_insights"].status = "success") =>
          /\ \E k \in Positions("ui_store") : k < ag_pos /\ ag_tape[k] = "ok"
          /\ \E r \in 1..Len(db) : db[r].id = InsightsId(UserId)

\* C28: within one run no step overwrites a row written by another step:
\* the ids under which profile, media, media-insights, user-insights and
\* hashtag-media records are upserted are distinct across the categories,
\* so every row keeps the data_type of the step that first wrote it.
C28_RowsKeepTheirType ==
    [][\A r \in 1..Len(db) : /\ r <= Len(db')
                             /\ db'[r].id = db[r].id
                             /\ db'[r].data_type = db[r].data_type]_vars

\* The step taken is the answer to a call, and the answer is a failure.
StepIsFailure ==
    /\ ag_pos' = ag_pos + 1
    /\ Len(ag_tape') >= ag_pos
    /\ \/ ag_tape'[ag_pos] \in { "raise", "fail", "notfound" }
       \/ ag_pc = "ui_profile" /\ ag_tape'[ag_pos] = "noid"

\* Every record of the list is a row of the table, as it was upserted.
AllInTable(records) ==
    \A j \in 1..Len(records) : \E r \in 1..Len(db) : db[r] = records[j]

\* C29: a failure never undoes earlier writes.  When fetch_and_store_media
\* or fetch_and_store_hashtag_media fails while upserting its k-th item, the
\* k-1 items upserted before it are rows of the table; and the step in
\* which a call of a run fails, whether the run aborts or records the error,
\* leaves every row of the table as it was.  No step removes a row.
C29_FailureKeepsEarlierWrites ==
    /\ [](/\ (ag_pc = "failed" /\ ag_calls[Len(ag_calls)] = "media_store")
                => AllInTable(ag_stored)
          /\ (ag_htres # << >> /\ ag_htres[Len(ag_htres)].status = "error"
                /\ ag_htres[Len(ag_htres)].error = "gateway"
                /\ ag_pc \in { "ht_id", "done" })
                => AllInTable(ag_tstored))
    /\ [][/\ Len(db') >= Len(db)
          /\ \A r \in 1..Len(db) : db'[r].id = db[r].id
          /\ StepIsFailure => db' = db]_vars

\* C29 witness: the upsert of the second media item has failed; the profile
\* and the first media item are rows of the table.
C29_Witness ==
    /\ ag_pc = "failed"
    /\ ag_calls[Len(ag_calls)] = "media_store"
    /\ Len(ag_media) = 2
    /\ Len(ag_stored) = 1
    /\ Ids(db) = << UserId, MediaId(1) >>

\* The status the run's own calls give an entry: "error" when a call of the
\* entry's round has failed, "success" otherwise.
OwnStatus(call, j) == IF RoundFailed(call, j) THEN "error" ELSE "success"

\* C21: when two runs of aggregate_all_data on the singleton aggregator
\* overlap, the summary of each reflects only its own calls: its keys, its
\* counts and the status of every entry follow from the run's own arguments
\* and from the answers to the calls that run made, whatever the other run
\* did in between, and the summary a run returns is the one it built.
C21_OverlappingRunsIndependent ==
    /\ DOMAIN ag_summary \subseteq
          { "profile", "media", "media_insights", "user_insights" }
              \cup (IF ag_hashtags # << >> THEN { "hashtags" } ELSE {})
    /\ "profile" \in DOMAIN ag_summary <=>
          \E k \in Positions("profile_store") : k < ag_pos /\ ag_tape[k] = "ok"
    /\ "media" \in DOMAIN ag_summary =>
          /\ ag_summary["media"].count = ag_limit
          /\ Cardinality({ k \in Positions("media_store") :
                               k < ag_pos /\ ag_tape[k] = "ok" }) = ag_limit
    /\ "media_insights" \in DOMAIN ag_summary =>
          LET mi == ag_summary["media_insights"]
          IN  /\ mi.count = ag_limit
              /\ Len(mi.items) = ag_limit
              /\ \A j \in 1..ag_limit :
                    /\ mi.items[j].media_id = ag_media[j].id
                    /\ mi.items[j].status = OwnStatus("mi_fetch", j)
    /\ "user_insights" \in DOMAIN ag_summary =>
          ag_summary["user_insights"].status =
              IF StepFailed("user_insights") THEN "error" ELSE "success"
    /\ "hashtags" \in DOMAIN ag_summary =>
          LET ht == ag_summary["hashtags"]
          IN  /\ ht.count = Len(ag_hashtags)
              /\ Len(ht.items) = Len(ag_hashtags)
              /\ \A j \in 1..Len(ag_hashtags) :
                    /\ ht.items[j].hashtag = ag_hashtags[j]
                    /\ ht.items[j].status = OwnStatus("ht_id", j)
    /\ ag_result.kind = "returned" =>
          /\ ag_result.summary = ag_summary
          /\ DOMAIN ag_summary =
                { "profile", "media", "media_insights", "user_insights" }
                    \cup (IF ag_hashtags # << >> THEN { "hashtags" } ELSE {})
    /\ ag_result.kind = "raised" <=> (StepFailed("profile") \/ StepFailed("media"))

\* C21 witness: a run without hashtags has returned its summary, with the
\* insights of its media item failed, while the run of an overlapping
\* request with a hashtag, which started first and stored its profile and
\* media, is suspended in the upsert of its media insights.
C21_Witness ==
    /\ ag_cur = 2
    /\ ag_result.kind = "returned"
    /\ ag_hashtags = << >>
    /\ ag_summary["media_insights"].items[1].status = "error"
    /\ ag_other.pc = "mi_store"
    /\ ag_other.hashtags # << >>
    /\ DOMAIN ag_other.summary = { "profile", "media" }

====
